---- MODULE Spec2Model ----
(***************************************************************************)
(* Model of the Orchestrator's rule-based classification engine            *)
(* (utils/detectionRules: FILE_CATEGORIES, PROJECT_DETECTORS,              *)
(* EXTENSION_RULES, NAME_PATTERNS, FOLDER_RULES, detectFileCategory), of   *)
(* the size pass of the tree view (App: enrichWithSizes), of the server's  *)
(* executor and scanner (POST /api/execute, POST /api/scan), of the move   *)
(* plan (runMoveDetection, the scan callback of App.tsx) and of the        *)
(* application's lifecycle (runScan, execute, undo).                       *)
(*                                                                         *)
(* The specifications share the module, each over its own variables with   *)
(* the others held idle: Spec (one call of detectFileCategory), SpecRepeat *)
(* (a scan calling it item after item), SpecSizes, SpecExecute and         *)
(* SpecConcurrent (one and two requests), SpecScan, SpecPlan and SpecApp.  *)
(*                                                                         *)
(* Strings of the program are sequences of one-character strings, so that  *)
(* includes, startsWith, lastIndexOf, substring, toLowerCase and the       *)
(* case-insensitive regular expressions are computed as the code computes  *)
(* them.  A value that may be absent (children, age, the children          *)
(* argument) carries a flag next to it.                                    *)
(***************************************************************************)
EXTENDS Integers, Sequences, FiniteSets, TLC

VARIABLES
  item,      \* the FileNode passed to detectFileCategory
  children,  \* the children argument: [isNull, list]
  result,    \* what the call returned (or NotCalled)
  pc         \* "call" before the call, "returned" after it

\* a scan that classifies several items, one call after the other
VARIABLES
  pool,      \* the items of the scan: [item, children] each
  lastIndex, \* the lastIndex property of each NAME_PATTERNS RegExp object
  history    \* the calls made so far: [arg, item, children, result]

\* the size pass of the tree view
VARIABLES
  tree,      \* fileSystem.root
  sized,     \* enrichWithSizes(tree)
  resized    \* enrichWithSizes(sized)

\* POST /api/execute; every per-request variable is a function of the request
VARIABLES
  fs,        \* the file system: path -> identity of the entry that lies there
  moves,     \* req.body.moves
  idx,       \* position of the for loop in moves
  finalPath, \* let finalPath
  counter,   \* let counter
  results,   \* const results
  errors,    \* const errors
  pcx,       \* where the handler stands: "loop", "vacuum", "probe", "rename", "done"
  response,  \* the body sent by res.json
  log        \* history: every fs.rename called, with the paths that existed then

\* POST /api/scan
VARIABLES
  disk,
  scanRequest,
  scanResponse

\* the move plan: the tree scanned, the moves proposed, the moves sent
VARIABLES
  planRoot,
  planMoves,
  planRequests

\* the application: its React state, the callbacks pending, the clicks made
VARIABLES
  appVariant,
  useRealFiles,
  fileSystem,
  appState,
  progress,
  proposedMoves,
  logs,
  pending,
  clicks

classifyVars == <<item, children, result, pc>>
repeatVars == <<pool, lastIndex, history>>
sizeVars == <<tree, sized, resized>>
executeVars == <<fs, moves, idx, finalPath, counter, results, errors, pcx, response, log>>

scanVars == <<disk, scanRequest, scanResponse>>

planVars == <<planRoot, planMoves, planRequests>>

appVars == <<appVariant, useRealFiles, fileSystem, appState, progress, proposedMoves, logs, pending, clicks>>

vars == <<classifyVars, repeatVars, sizeVars, executeVars, scanVars, planVars, appVars>>

----------------------------------------------------------------------------
(* Bounds of the model *)

\* longest children list that is enumerated
MaxChildren == 2

----------------------------------------------------------------------------
(* JavaScript strings *)

UpperChars == <<"A","B","C","D","E","F","G","H","I","J","K","L","M",
                "N","O","P","Q","R","S","T","U","V","W","X","Y","Z">>
LowerChars == <<"a","b","c","d","e","f","g","h","i","j","k","l","m",
                "n","o","p","q","r","s","t","u","v","w","x","y","z">>

\* the lower-case letter of each upper-case letter
UpperToLower ==
  [c \in {UpperChars[i] : i \in 1..Len(UpperChars)} |->
     LowerChars[CHOOSE i \in 1..Len(UpperChars) : UpperChars[i] = c]]

\* one character of String.prototype.toLowerCase
LowerChar(c) == IF c \in DOMAIN UpperToLower THEN UpperToLower[c] ELSE c

\* s.toLowerCase()
toLowerCase(s) == [i \in 1..Len(s) |-> LowerChar(s[i])]

\* s.includes(t)
includes(s, t) ==
  \E i \in 1..(Len(s) - Len(t) + 1) : SubSeq(s, i, i + Len(t) - 1) = t

\* s.startsWith(t)
startsWith(s, t) == Len(s) >= Len(t) /\ SubSeq(s, 1, Len(t)) = t

\* s.indexOf(c): the first occurrence
lastIndexOf_First(s, c) ==
  IF \E i \in 1..Len(s) : s[i] = c
  THEN (CHOOSE i \in 1..Len(s) :
          s[i] = c /\ \A j \in 1..(i-1) : s[j] # c) - 1
  ELSE -1

\* s.lastIndexOf(c) for a one-character c: 0-based, -1 when c does not occur
lastIndexOf(s, c) ==
  IF \E i \in 1..Len(s) : s[i] = c
  THEN (CHOOSE i \in 1..Len(s) :
          s[i] = c /\ \A j \in (i+1)..Len(s) : s[j] # c) - 1
  ELSE -1

\* s.substring(start), start 0-based
substring(s, start) == SubSeq(s, start + 1, Len(s))

\* the test without the i flag
regexTest_CaseSensitive(pattern, s) == includes(s, pattern)

\* /pattern/i.test(s): a literal pattern, matched anywhere, letters compared
\* without regard to case
regexTestIgnoreCase(pattern, s) == includes(toLowerCase(s), toLowerCase(pattern))

Digits == <<"0","1","2","3","4","5","6","7","8","9">>

\* String(n) for a non-negative integer n, as a template literal renders it
RECURSIVE numberToString(_)
numberToString(n) ==
  IF n < 10 THEN <<Digits[n + 1]>>
  ELSE numberToString(n \div 10) \o <<Digits[(n % 10) + 1]>>

----------------------------------------------------------------------------
(* The names the rules and the enumerated inputs use *)

S__git == <<".","g","i","t">>
S_package_json == <<"p","a","c","k","a","g","e",".","j","s","o","n">>
S_requirements_txt == <<"r","e","q","u","i","r","e","m","e","n","t","s",".","t","x","t">>
S_setup_py == <<"s","e","t","u","p",".","p","y">>
S_pyproject_toml == <<"p","y","p","r","o","j","e","c","t",".","t","o","m","l">>
S_Pipfile == <<"P","i","p","f","i","l","e">>
S_Assets == <<"A","s","s","e","t","s">>
S_ProjectSettings == <<"P","r","o","j","e","c","t","S","e","t","t","i","n","g","s">>
S_Cargo_toml == <<"C","a","r","g","o",".","t","o","m","l">>
S_go_mod == <<"g","o",".","m","o","d">>
S_pom_xml == <<"p","o","m",".","x","m","l">>
S_build_gradle == <<"b","u","i","l","d",".","g","r","a","d","l","e">>
S__dotnet == <<".","d","o","t","n","e","t">>
S_temp == <<"t","e","m","p">>
S_src == <<"s","r","c">>
S_my_temp_build == <<"m","y","-","t","e","m","p","-","b","u","i","l","d">>
S_TEMP_Temp == <<"T","E","M","P","-","T","e","m","p">>
S__temp == <<".","t","e","m","p">>
S_OldProj == <<"O","l","d","P","r","o","j">>
S_temp_tax_zip == <<"t","e","m","p","_","t","a","x",".","z","i","p">>
S_Annual_Tax_Invoice_2024_pdf == <<"A","n","n","u","a","l","_","T","a","x","_","I","n","v","o","i","c","e","_","2","0","2","4",".","p","d","f">>
S_screenshot_2024_png == <<"s","c","r","e","e","n","s","h","o","t","_","2","0","2","4",".","p","n","g">>
S_archive_zip == <<"a","r","c","h","i","v","e",".","z","i","p">>
S_A_ZIP == <<"A",".","Z","I","P">>
S_a_tar_gz == <<"a",".","t","a","r",".","g","z">>
S_README == <<"R","E","A","D","M","E">>
S_notes_xyz == <<"n","o","t","e","s",".","x","y","z">>
S_v1_zip_bak == <<"v","1",".","z","i","p",".","b","a","k">>

----------------------------------------------------------------------------
(* types.ts: FileNode *)

\* a node of type file: no children, no age
FileEntry(name) ==
  [name |-> name, type |-> "file", hasChildren |-> FALSE, children |-> <<>>,
   hasAge |-> FALSE, age |-> 0]

\* a node of type folder with a children list
FolderEntry(name, kids) ==
  [name |-> name, type |-> "folder", hasChildren |-> TRUE, children |-> kids,
   hasAge |-> FALSE, age |-> 0]

----------------------------------------------------------------------------
(* detectionRules: the tables *)

FILE_CATEGORIES ==
  [
    PROJECT_GIT |-> [target |-> "01_Build/Projects", priority |-> 10],
    PROJECT_NODE |-> [target |-> "01_Build/Web", priority |-> 10],
    PROJECT_PYTHON |-> [target |-> "01_Build/Data", priority |-> 10],
    PROJECT_UNITY |-> [target |-> "01_Build/Interactive", priority |-> 10],
    PROJECT_RUST |-> [target |-> "01_Build/Systems", priority |-> 10],
    PROJECT_GO |-> [target |-> "01_Build/Systems", priority |-> 10],
    PROJECT_JAVA |-> [target |-> "01_Build/Enterprise", priority |-> 10],
    DOC_PDF |-> [target |-> "03_Library/Documents", priority |-> 5],
    DOC_OFFICE |-> [target |-> "03_Library/Documents", priority |-> 5],
    DOC_TEXT |-> [target |-> "03_Library/Notes", priority |-> 5],
    MEDIA_VIDEO |-> [target |-> "05_Stage/Media/Videos", priority |-> 5],
    MEDIA_AUDIO |-> [target |-> "05_Stage/Media/Audio", priority |-> 5],
    MEDIA_IMAGE |-> [target |-> "05_Stage/Media/Images", priority |-> 5],
    ARCHIVE_COMPRESSED |-> [target |-> "00_Inbox/Archives", priority |-> 5],
    SDK_DOTNET |-> [target |-> "02_Studio/SDKs", priority |-> 8],
    CONFIG_DOTFILE |-> [target |-> "02_Studio/Config", priority |-> 8],
    TOOL_EXECUTABLE |-> [target |-> "02_Studio/Tools", priority |-> 7],
    PRIVATE_FINANCIAL |-> [target |-> "04_Private/Financial", priority |-> 9],
    PRIVATE_LEGAL |-> [target |-> "04_Private/Legal", priority |-> 9],
    PRIVATE_MEDICAL |-> [target |-> "04_Private/Medical", priority |-> 9],
    PRIVATE_IDENTITY |-> [target |-> "04_Private/Identity", priority |-> 9],
    VACUUM_EMPTY |-> [target |-> "VACUUM", priority |-> 3],
    VACUUM_TEMP |-> [target |-> "VACUUM", priority |-> 6],
    ARCHIVE_STALE |-> [target |-> "99_Archives/2024", priority |-> 4]
  ]

NAME_PATTERNS ==
  <<
    [pattern |-> <<"i","n","v","o","i","c","e">>, category |-> "PRIVATE_FINANCIAL", reason |-> <<"Financial Document">>],
    [pattern |-> <<"r","e","c","e","i","p","t">>, category |-> "PRIVATE_FINANCIAL", reason |-> <<"Financial Document">>],
    [pattern |-> <<"t","a","x">>, category |-> "PRIVATE_FINANCIAL", reason |-> <<"Tax Document">>],
    [pattern |-> <<"n","d","a">>, category |-> "PRIVATE_LEGAL", reason |-> <<"Legal Document">>],
    [pattern |-> <<"c","o","n","t","r","a","c","t">>, category |-> "PRIVATE_LEGAL", reason |-> <<"Legal Document">>],
    [pattern |-> <<"b","l","o","o","d">>, category |-> "PRIVATE_MEDICAL", reason |-> <<"Medical Record">>],
    [pattern |-> <<"m","e","d","i","c","a","l">>, category |-> "PRIVATE_MEDICAL", reason |-> <<"Medical Record">>],
    [pattern |-> <<"p","a","s","s","p","o","r","t">>, category |-> "PRIVATE_IDENTITY", reason |-> <<"ID Document">>],
    [pattern |-> <<"s","c","r","e","e","n","s","h","o","t">>, category |-> "MEDIA_IMAGE", reason |-> <<"Screenshot">>],
    [pattern |-> <<"e","x","p","o","r","t">>, category |-> "DOC_OFFICE", reason |-> <<"Export">>],
    [pattern |-> <<"c","h","e","a","t","s","h","e","e","t">>, category |-> "DOC_TEXT", reason |-> <<"Reference">>],
    [pattern |-> <<"b","o","o","k">>, category |-> "DOC_PDF", reason |-> <<"Book">>]
  >>

EXTENSION_RULES ==
  <<
    [ext |-> <<".","p","d","f">>, category |-> "DOC_PDF", reason |-> <<"PDF Document">>],
    [ext |-> <<".","d","o","c","x">>, category |-> "DOC_OFFICE", reason |-> <<"Word Document">>],
    [ext |-> <<".","d","o","c">>, category |-> "DOC_OFFICE", reason |-> <<"Word Document">>],
    [ext |-> <<".","x","l","s","x">>, category |-> "DOC_OFFICE", reason |-> <<"Excel Spreadsheet">>],
    [ext |-> <<".","x","l","s">>, category |-> "DOC_OFFICE", reason |-> <<"Excel Spreadsheet">>],
    [ext |-> <<".","p","p","t","x">>, category |-> "DOC_OFFICE", reason |-> <<"PowerPoint">>],
    [ext |-> <<".","t","x","t">>, category |-> "DOC_TEXT", reason |-> <<"Text File">>],
    [ext |-> <<".","m","d">>, category |-> "DOC_TEXT", reason |-> <<"Markdown">>],
    [ext |-> <<".","m","p","4">>, category |-> "MEDIA_VIDEO", reason |-> <<"Video File">>],
    [ext |-> <<".","a","v","i">>, category |-> "MEDIA_VIDEO", reason |-> <<"Video File">>],
    [ext |-> <<".","m","k","v">>, category |-> "MEDIA_VIDEO", reason |-> <<"Video File">>],
    [ext |-> <<".","m","o","v">>, category |-> "MEDIA_VIDEO", reason |-> <<"Video File">>],
    [ext |-> <<".","w","m","v">>, category |-> "MEDIA_VIDEO", reason |-> <<"Video File">>],
    [ext |-> <<".","m","p","3">>, category |-> "MEDIA_AUDIO", reason |-> <<"Audio File">>],
    [ext |-> <<".","w","a","v">>, category |-> "MEDIA_AUDIO", reason |-> <<"Audio File">>],
    [ext |-> <<".","f","l","a","c">>, category |-> "MEDIA_AUDIO", reason |-> <<"Audio File">>],
    [ext |-> <<".","m","4","a">>, category |-> "MEDIA_AUDIO", reason |-> <<"Audio File">>],
    [ext |-> <<".","o","g","g">>, category |-> "MEDIA_AUDIO", reason |-> <<"Audio File">>],
    [ext |-> <<".","j","p","g">>, category |-> "MEDIA_IMAGE", reason |-> <<"Image File">>],
    [ext |-> <<".","j","p","e","g">>, category |-> "MEDIA_IMAGE", reason |-> <<"Image File">>],
    [ext |-> <<".","p","n","g">>, category |-> "MEDIA_IMAGE", reason |-> <<"Image File">>],
    [ext |-> <<".","g","i","f">>, category |-> "MEDIA_IMAGE", reason |-> <<"Image File">>],
    [ext |-> <<".","b","m","p">>, category |-> "MEDIA_IMAGE", reason |-> <<"Image File">>],
    [ext |-> <<".","s","v","g">>, category |-> "MEDIA_IMAGE", reason |-> <<"Vector Image">>],
    [ext |-> <<".","w","e","b","p">>, category |-> "MEDIA_IMAGE", reason |-> <<"Image File">>],
    [ext |-> <<".","z","i","p">>, category |-> "ARCHIVE_COMPRESSED", reason |-> <<"Archive">>],
    [ext |-> <<".","r","a","r">>, category |-> "ARCHIVE_COMPRESSED", reason |-> <<"Archive">>],
    [ext |-> <<".","7","z">>, category |-> "ARCHIVE_COMPRESSED", reason |-> <<"Archive">>],
    [ext |-> <<".","t","a","r">>, category |-> "ARCHIVE_COMPRESSED", reason |-> <<"Archive">>],
    [ext |-> <<".","g","z">>, category |-> "ARCHIVE_COMPRESSED", reason |-> <<"Archive">>],
    [ext |-> <<".","e","x","e">>, category |-> "TOOL_EXECUTABLE", reason |-> <<"Executable">>],
    [ext |-> <<".","m","s","i">>, category |-> "TOOL_EXECUTABLE", reason |-> <<"Installer">>],
    [ext |-> <<".","a","p","p">>, category |-> "TOOL_EXECUTABLE", reason |-> <<"Application">>],
    [ext |-> <<".","d","m","g">>, category |-> "TOOL_EXECUTABLE", reason |-> <<"Disk Image">>]
  >>

----------------------------------------------------------------------------
(* JavaScript values of the rule predicates: a check yields "true" or      *)
(* "false"; an optional chain on an absent receiver yields Undefined; a    *)
(* property read on an absent receiver raises TypeError.                   *)

Undefined == "undefined"
TypeError == "TypeError"
JSBool(b) == IF b THEN "true" ELSE "false"

\* v ?? d
nullish(v, d) == IF v = Undefined THEN d ELSE v

\* children?.some(child => names.includes(child.name))
optSomeNamed(kids, names) ==
  IF kids.isNull THEN Undefined
  ELSE JSBool(\E i \in 1..Len(kids.list) : kids.list[i].name \in names)

\* children?.some(child => child.name === name && child.type === 'folder')
optSomeFolderNamed(kids, name) ==
  IF kids.isNull THEN Undefined
  ELSE JSBool(\E i \in 1..Len(kids.list) :
                kids.list[i].name = name /\ kids.list[i].type = "folder")

\* the thresholds of the two age rules
TEMP_AGE_DAYS == 30
STALE_AGE_DAYS == 365

\* an absent age taken as older than every threshold
ageOrZero_AbsentIsOld(node) == IF node.hasAge THEN node.age ELSE STALE_AGE_DAYS + 1

\* item.age ?? 0
ageOrZero(node) == IF node.hasAge THEN node.age ELSE 0

\* item.children?.length without ?? 0: an absent list has no length equal to 0
childrenLengthOrZero_NoDefault(node) == IF node.hasChildren THEN Len(node.children) ELSE -1

\* item.children?.length ?? 0
childrenLengthOrZero(node) == IF node.hasChildren THEN Len(node.children) ELSE 0

----------------------------------------------------------------------------
(* PROJECT_DETECTORS *)

PROJECT_DETECTORS ==
  <<
    [name |-> "Git Repository", category |-> "PROJECT_GIT", reason |-> <<"Git Repository">>],
    [name |-> "Node.js Project", category |-> "PROJECT_NODE", reason |-> <<"Node.js Project">>],
    [name |-> "Python Project", category |-> "PROJECT_PYTHON", reason |-> <<"Python Project">>],
    [name |-> "Unity Project", category |-> "PROJECT_UNITY", reason |-> <<"Unity Project">>],
    [name |-> "Rust Project", category |-> "PROJECT_RUST", reason |-> <<"Rust Project">>],
    [name |-> "Go Project", category |-> "PROJECT_GO", reason |-> <<"Go Project">>],
    [name |-> "Java/Maven Project", category |-> "PROJECT_JAVA", reason |-> <<"Java Project">>]
  >>

\* GitCheck with children.some(...) in place of children?.some(...)
GitCheck_NoOptionalChain(node, kids) ==
  IF node.type # "folder" THEN "false"
  ELSE IF kids.isNull THEN TypeError
       ELSE JSBool(\E i \in 1..Len(kids.list) : kids.list[i].name = S__git)

GitCheck(node, kids) ==
  IF node.type # "folder" THEN "false"
  ELSE nullish(optSomeNamed(kids, {S__git}), "false")

NodeCheck(node, kids) ==
  IF node.type # "folder" THEN "false"
  ELSE nullish(optSomeNamed(kids, {S_package_json}), "false")

PythonIndicators == {S_requirements_txt, S_setup_py, S_pyproject_toml, S_Pipfile}

PythonCheck(node, kids) ==
  IF node.type # "folder" THEN "false"
  ELSE nullish(optSomeNamed(kids, PythonIndicators), "false")

\* UnityCheck with hasAssets || hasProjectSettings
UnityCheck_EitherMarker(node, kids) ==
  IF node.type # "folder" THEN "false"
  ELSE LET hasAssets == nullish(optSomeFolderNamed(kids, S_Assets), "false")
           hasProjectSettings == nullish(optSomeNamed(kids, {S_ProjectSettings}), "false")
       IN  JSBool(hasAssets = "true" \/ hasProjectSettings = "true")

UnityCheck(node, kids) ==
  IF node.type # "folder" THEN "false"
  ELSE LET hasAssets == nullish(optSomeFolderNamed(kids, S_Assets), "false")
           hasProjectSettings == nullish(optSomeNamed(kids, {S_ProjectSettings}), "false")
       IN  JSBool(hasAssets = "true" /\ hasProjectSettings = "true")

\* RustCheck looking for 'cargo.toml'
RustCheck_LowerCaseMarker(node, kids) ==
  IF node.type # "folder" THEN "false"
  ELSE nullish(optSomeNamed(kids, {toLowerCase(S_Cargo_toml)}), "false")

RustCheck(node, kids) ==
  IF node.type # "folder" THEN "false"
  ELSE nullish(optSomeNamed(kids, {S_Cargo_toml}), "false")

GoCheck(node, kids) ==
  IF node.type # "folder" THEN "false"
  ELSE nullish(optSomeNamed(kids, {S_go_mod}), "false")

\* JavaCheck without the test of the node's type
JavaCheck_NoTypeTest(node, kids) ==
  nullish(optSomeNamed(kids, {S_pom_xml, S_build_gradle}), "false")

JavaCheck(node, kids) ==
  IF node.type # "folder" THEN "false"
  ELSE nullish(optSomeNamed(kids, {S_pom_xml, S_build_gradle}), "false")

\* PROJECT_DETECTORS[i].check(item, children)
DetectorCheck(i, node, kids) ==
  CASE i = 1 -> GitCheck(node, kids)
    [] i = 2 -> NodeCheck(node, kids)
    [] i = 3 -> PythonCheck(node, kids)
    [] i = 4 -> UnityCheck(node, kids)
    [] i = 5 -> RustCheck(node, kids)
    [] i = 6 -> GoCheck(node, kids)
    [] i = 7 -> JavaCheck(node, kids)

----------------------------------------------------------------------------
(* FOLDER_RULES *)

\* reason holds the static reasons; rule 3 computes its reason from the node
FOLDER_RULES ==
  <<
    [category |-> "VACUUM_EMPTY", reason |-> <<"Empty Folder">>],
    [category |-> "VACUUM_TEMP", reason |-> <<"Old Temp Folder">>],
    [category |-> "ARCHIVE_STALE", reason |-> <<"Inactive (", "${item.age}", "d)">>],
    [category |-> "SDK_DOTNET", reason |-> <<".NET SDK">>],
    [category |-> "CONFIG_DOTFILE", reason |-> <<"Config Folder">>]
  >>

EmptyFolderCheck(node) ==
  JSBool(node.type = "folder" /\ childrenLengthOrZero(node) = 0)

\* TempFolderCheck with age >= 30
TempFolderCheck_AtThreshold(node) ==
  JSBool(node.type = "folder" /\ includes(node.name, S_temp)
         /\ ageOrZero(node) >= TEMP_AGE_DAYS)

TempFolderCheck(node) ==
  JSBool(node.type = "folder" /\ includes(node.name, S_temp)
         /\ ageOrZero(node) > TEMP_AGE_DAYS)

\* StaleFolderCheck with age >= 365
StaleFolderCheck_AtThreshold(node) ==
  JSBool(node.type = "folder" /\ ageOrZero(node) >= STALE_AGE_DAYS
         /\ ~startsWith(node.name, <<".">>))

StaleFolderCheck(node) ==
  JSBool(node.type = "folder" /\ ageOrZero(node) > STALE_AGE_DAYS
         /\ ~startsWith(node.name, <<".">>))

\* DotnetCheck comparing with 'dotnet'
DotnetCheck_NoLeadingDot(node) == JSBool(node.name = SubSeq(S__dotnet, 2, Len(S__dotnet)))

DotnetCheck(node) == JSBool(node.name = S__dotnet)

DotfileCheck(node) == JSBool(startsWith(node.name, <<".">>) /\ node.type = "folder")

\* FOLDER_RULES[i].check(item)
FolderRuleCheck(i, node) ==
  CASE i = 1 -> EmptyFolderCheck(node)
    [] i = 2 -> TempFolderCheck(node)
    [] i = 3 -> StaleFolderCheck(node)
    [] i = 4 -> DotnetCheck(node)
    [] i = 5 -> DotfileCheck(node)

\* `Inactive (${item.age}d)`
StaleReason(node) ==
  <<"Inactive (">>
  \o (IF node.hasAge THEN numberToString(node.age) ELSE <<Undefined>>)
  \o <<"d)">>

\* typeof rule.reason === 'function' ? rule.reason(item) : rule.reason
FolderRuleReason(i, node) ==
  IF i = 3 THEN StaleReason(node) ELSE FOLDER_RULES[i].reason

----------------------------------------------------------------------------
(* detectFileCategory *)

NullResult == [kind |-> "null"]
Thrown == [kind |-> "throw", error |-> TypeError]
NoMatch == [kind |-> "nomatch"]

\* { category, ...FILE_CATEGORIES[category], reason }
DetectionResult(category, reason) ==
  [kind |-> "result", category |-> category,
   target |-> FILE_CATEGORIES[category].target,
   priority |-> FILE_CATEGORIES[category].priority,
   reason |-> reason]

\* ProjectStage with reason: detector.name
RECURSIVE ProjectStage_ReasonFromName(_, _, _)
ProjectStage_ReasonFromName(i, node, kids) ==
  IF i > Len(PROJECT_DETECTORS) THEN NoMatch
  ELSE LET c == DetectorCheck(i, node, kids)
       IN  IF c = TypeError THEN Thrown
           ELSE IF c = "true"
                THEN DetectionResult(PROJECT_DETECTORS[i].category,
                                     <<PROJECT_DETECTORS[i].name>>)
                ELSE ProjectStage_ReasonFromName(i + 1, node, kids)

\* ProjectStage without the early return: the last matching detector decides
RECURSIVE ProjectStage_LastMatchWins(_, _, _)
ProjectStage_LastMatchWins(i, node, kids) ==
  IF i > Len(PROJECT_DETECTORS) THEN NoMatch
  ELSE LET later == ProjectStage_LastMatchWins(i + 1, node, kids)
       IN  IF later # NoMatch THEN later
           ELSE IF DetectorCheck(i, node, kids) = "true"
                THEN DetectionResult(PROJECT_DETECTORS[i].category,
                                     PROJECT_DETECTORS[i].reason)
                ELSE NoMatch

\* for (const detector of PROJECT_DETECTORS) if (detector.check(...)) return ...
RECURSIVE ProjectStage(_, _, _)
ProjectStage(i, node, kids) ==
  IF i > Len(PROJECT_DETECTORS) THEN NoMatch
  ELSE LET c == DetectorCheck(i, node, kids)
       IN  IF c = TypeError THEN Thrown
           ELSE IF c = "true"
                THEN DetectionResult(PROJECT_DETECTORS[i].category,
                                     PROJECT_DETECTORS[i].reason)
                ELSE ProjectStage(i + 1, node, kids)

\* for (const rule of FOLDER_RULES) if (rule.check(item)) return ...
RECURSIVE FolderRulesLoop(_, _)
FolderRulesLoop(i, node) ==
  IF i > Len(FOLDER_RULES) THEN NoMatch
  ELSE IF FolderRuleCheck(i, node) = "true"
       THEN DetectionResult(FOLDER_RULES[i].category, FolderRuleReason(i, node))
       ELSE FolderRulesLoop(i + 1, node)

\* FolderStage with the loop started at the second rule
FolderStage_SkipsFirstRule(node) ==
  IF node.type = "folder" THEN FolderRulesLoop(2, node) ELSE NoMatch

\* if (item.type === 'folder') { the loop over FOLDER_RULES }
FolderStage(node) ==
  IF node.type = "folder" THEN FolderRulesLoop(1, node) ELSE NoMatch

\* for (const pattern of NAME_PATTERNS) if (pattern.pattern.test(item.name)) return ...
RECURSIVE NameStage(_, _)
NameStage(i, node) ==
  IF i > Len(NAME_PATTERNS) THEN NoMatch
  ELSE IF regexTestIgnoreCase(NAME_PATTERNS[i].pattern, node.name)
       THEN DetectionResult(NAME_PATTERNS[i].category, NAME_PATTERNS[i].reason)
       ELSE NameStage(i + 1, node)

\* EXTENSION_RULES[ext]: the index of the entry keyed ext, 0 when there is none
ExtensionLookup(ext) ==
  LET hits == {i \in 1..Len(EXTENSION_RULES) : EXTENSION_RULES[i].ext = ext}
  IN  IF hits = {} THEN 0 ELSE CHOOSE i \in hits : TRUE

\* if (item.type === 'file') { lastIndexOf, substring, toLowerCase, lookup }
ExtensionStage(node) ==
  IF node.type # "file" THEN NoMatch
  ELSE LET lastDotIndex == lastIndexOf(node.name, ".")
       IN  IF lastDotIndex = -1 THEN NoMatch
           ELSE LET ext == toLowerCase(substring(node.name, lastDotIndex))
                    k == ExtensionLookup(ext)
                IN  IF k = 0 THEN NoMatch
                    ELSE DetectionResult(EXTENSION_RULES[k].category,
                                         EXTENSION_RULES[k].reason)

\* detectFileCategory returning, of the stages' matches, the one of the highest
\* priority (the earlier stage on a tie)
detectFileCategory_HighestPriority(node, kids) ==
  LET stages == << ProjectStage(1, node, kids), FolderStage(node),
                   NameStage(1, node), ExtensionStage(node) >>
      hits == {k \in 1..4 : stages[k] # NoMatch}
  IN  IF hits = {} THEN NullResult
      ELSE stages[CHOOSE k \in hits :
                    \A j \in hits :
                      \/ stages[k].priority > stages[j].priority
                      \/ (stages[k].priority = stages[j].priority /\ k <= j)]

\* detectFileCategory whose project stage reads item.children when the
\* children argument is null
detectFileCategory_DefaultsToOwnChildren(node, kids) ==
  LET arg == IF kids.isNull /\ node.hasChildren
             THEN [isNull |-> FALSE, list |-> node.children] ELSE kids
      p == ProjectStage(1, node, arg)
  IN  IF p # NoMatch THEN p
      ELSE LET f == FolderStage(node)
           IN  IF f # NoMatch THEN f
               ELSE LET n == NameStage(1, node)
                    IN  IF n # NoMatch THEN n
                        ELSE LET e == ExtensionStage(node)
                             IN  IF e # NoMatch THEN e ELSE NullResult

\* detectFileCategory with the name patterns tried before the folder rules
detectFileCategory_NamesBeforeFolderRules(node, kids) ==
  LET p == ProjectStage(1, node, kids)
  IN  IF p # NoMatch THEN p
      ELSE LET n == NameStage(1, node)
           IN  IF n # NoMatch THEN n
               ELSE LET f == FolderStage(node)
                    IN  IF f # NoMatch THEN f
                        ELSE LET e == ExtensionStage(node)
                             IN  IF e # NoMatch THEN e ELSE NullResult

\* detectFileCategory(item, children = null); kids is children ?? undefined
detectFileCategory(node, kids) ==
  LET p == ProjectStage(1, node, kids)
  IN  IF p # NoMatch THEN p
      ELSE LET f == FolderStage(node)
           IN  IF f # NoMatch THEN f
               ELSE LET n == NameStage(1, node)
                    IN  IF n # NoMatch THEN n
                        ELSE LET e == ExtensionStage(node)
                             IN  IF e # NoMatch THEN e ELSE NullResult

----------------------------------------------------------------------------
(* The enumerated inputs *)

AbsentList == [has |-> FALSE, list |-> <<>>]
PresentList(l) == [has |-> TRUE, list |-> l]

\* the children argument
NullArg == [isNull |-> TRUE, list |-> <<>>]
ListArg(l) == [isNull |-> FALSE, list |-> l]

\* entries a children list is made of: every project marker, an Assets entry
\* of either type, and a folder that is no marker but holds one
ChildEntries ==
  << FolderEntry(S__git, <<>>), FileEntry(S_package_json),
     FileEntry(S_requirements_txt), FileEntry(S_setup_py),
     FileEntry(S_pyproject_toml), FileEntry(S_Pipfile),
     FolderEntry(S_Assets, <<>>), FileEntry(S_Assets),
     FolderEntry(S_ProjectSettings, <<>>),
     FileEntry(S_Cargo_toml), FileEntry(S_go_mod),
     FileEntry(S_pom_xml), FileEntry(S_build_gradle),
     FolderEntry(S_src, <<FileEntry(S_Cargo_toml)>>) >>

\* the entries of one directory have distinct names
DistinctNames(l) ==
  \A i, j \in 1..Len(l) : i # j => l[i].name # l[j].name

\* the members of a set of numbers, in increasing order
RECURSIVE Ascending(_)
Ascending(S) ==
  IF S = {} THEN <<>>
  ELSE LET m == CHOOSE x \in S : \A y \in S : x <= y
       IN  <<m>> \o Ascending(S \ {m})

Reverse(s) == [i \in 1..Len(s) |-> s[Len(s) + 1 - i]]

EntriesAt(ix) == [i \in 1..Len(ix) |-> ChildEntries[ix[i]]]

\* the children lists: every choice of at most MaxChildren entries, listed in
\* the order of ChildEntries and in the opposite order
ChildLists ==
  {l \in UNION { {EntriesAt(Ascending(S)), EntriesAt(Reverse(Ascending(S)))} :
                   S \in {T \in SUBSET (1..Len(ChildEntries)) : Cardinality(T) <= MaxChildren} } :
     DistinctNames(l)}

ChildrenArgs == {NullArg} \cup {ListArg(l) : l \in ChildLists}

NodeNames ==
  { S_my_temp_build, S_TEMP_Temp, S__dotnet, S__temp, S_OldProj, S_temp_tax_zip,
    S_Annual_Tax_Invoice_2024_pdf, S_screenshot_2024_png, S_archive_zip,
    S_A_ZIP, S_a_tar_gz, S_README, S_notes_xyz, S_v1_zip_bak }

\* ages around the two thresholds, and absent
AgeValues == {10, 30, 31, 45, 365, 366, 400}
AgeOptions == {[has |-> FALSE, value |-> 0]} \cup {[has |-> TRUE, value |-> a] : a \in AgeValues}

\* node.children of a folder.  Called as detectFileCategory(item, item.children)
\* the two agree; a list of at most one entry is also passed to a node whose
\* own list is empty; called without the argument, the node's own list is
\* absent, empty, or holds one entry (a marker, or a folder that is none).
OwnChildren(arg) ==
  IF arg.isNull
  THEN { AbsentList, PresentList(<<>>),
         PresentList(<<FileEntry(S_Cargo_toml)>>),
         PresentList(<<FolderEntry(S_src, <<FileEntry(S_Cargo_toml)>>)>>) }
  ELSE {PresentList(arg.list)}
       \cup (IF Len(arg.list) <= 1 THEN {PresentList(<<>>)} ELSE {})

MakeNode(name, type, kids, age) ==
  [name |-> name, type |-> type, hasChildren |-> kids.has, children |-> kids.list,
   hasAge |-> age.has, age |-> age.value]

FolderNodes(arg) ==
  {MakeNode(n, "folder", k, a) : n \in NodeNames, k \in OwnChildren(arg), a \in AgeOptions}

FileNodes ==
  {MakeNode(n, "file", AbsentList, a) :
     n \in NodeNames, a \in {[has |-> FALSE, value |-> 0], [has |-> TRUE, value |-> 400]}}

NotCalled == [kind |-> "notcalled"]

----------------------------------------------------------------------------
(* The state machine: one call of detectFileCategory on enumerated inputs *)

\* the variables of a part of the program that a specification leaves out
ClassifyIdle ==
  /\ item = NotCalled /\ children = NotCalled /\ result = NotCalled /\ pc = "idle"

RepeatIdle == pool = <<>> /\ lastIndex = <<>> /\ history = <<>>

SizesIdle == tree = NotCalled /\ sized = NotCalled /\ resized = NotCalled

ExecuteIdle ==
  /\ fs = <<>> /\ moves = <<>> /\ idx = <<>> /\ finalPath = <<>> /\ counter = <<>>
  /\ results = <<>> /\ errors = <<>> /\ pcx = <<>> /\ response = <<>> /\ log = <<>>

ScanIdle == disk = NotCalled /\ scanRequest = NotCalled /\ scanResponse = NotCalled

PlanIdle == planRoot = NotCalled /\ planMoves = NotCalled /\ planRequests = NotCalled

AppIdle == appVariant = NotCalled /\ useRealFiles = NotCalled /\ fileSystem = NotCalled /\ appState = NotCalled /\ progress = NotCalled /\ proposedMoves = NotCalled /\ logs = NotCalled /\ pending = NotCalled /\ clicks = NotCalled

Init ==
  /\ children \in ChildrenArgs
  /\ item \in FolderNodes(children) \cup FileNodes
  /\ result = NotCalled
  /\ pc = "call"
  /\ RepeatIdle /\ SizesIdle /\ ExecuteIdle /\ ScanIdle /\ PlanIdle /\ AppIdle

\* const detection = detectFileCategory(item, children)
Classify ==
  /\ pc = "call"
  /\ result' = detectFileCategory(item, children)
  /\ pc' = "returned"
  /\ UNCHANGED <<item, children>>
  /\ UNCHANGED <<repeatVars, sizeVars, executeVars, scanVars, planVars, appVars>>

Next == Classify

Spec == Init /\ [][Next]_vars

----------------------------------------------------------------------------
(* A scan: detectFileCategory called on item after item.  The only state the
   function could carry from call to call is the lastIndex of the RegExp
   objects of NAME_PATTERNS, which test() reads and writes for a pattern with
   the g flag. *)

\* most calls of one scan that are followed
MaxCalls == 3

\* the flags /.../gi
PatternFlags_Global == {"g", "i"}

\* the flags of every NAME_PATTERNS literal: /.../i
PatternFlags == {"i"}

\* pattern.test(s) with the object's lastIndex li: whether it matched, and the
\* lastIndex it leaves.  Without g the search starts at 0 and lastIndex is not
\* written; with g it starts at lastIndex, which becomes the end of the match,
\* or 0 when there is none.
RegExpTest(pattern, s, li) ==
  IF "g" \notin PatternFlags
  THEN [found |-> regexTestIgnoreCase(pattern, s), lastIndex |-> li]
  ELSE LET lower == toLowerCase(s)
           p == toLowerCase(pattern)
           hits == {i \in (li + 1)..(Len(s) - Len(p) + 1) :
                      SubSeq(lower, i, i + Len(p) - 1) = p}
       IN  IF hits = {} THEN [found |-> FALSE, lastIndex |-> 0]
           ELSE [found |-> TRUE,
                 lastIndex |-> (CHOOSE i \in hits : \A j \in hits : i <= j)
                               - 1 + Len(p)]

\* the NAME_PATTERNS loop, with the lastIndex of every pattern: li[k]
RECURSIVE NameStageWith(_, _, _)
NameStageWith(i, node, li) ==
  IF i > Len(NAME_PATTERNS) THEN [result |-> NoMatch, lastIndex |-> li]
  ELSE LET t == RegExpTest(NAME_PATTERNS[i].pattern, node.name, li[i])
           after == [li EXCEPT ![i] = t.lastIndex]
       IN  IF t.found
           THEN [result |-> DetectionResult(NAME_PATTERNS[i].category,
                                            NAME_PATTERNS[i].reason),
                 lastIndex |-> after]
           ELSE NameStageWith(i + 1, node, after)

\* detectFileCategory with the state of the RegExp objects: what it returns
\* and the state it leaves
detectFileCategoryWith(node, kids, li) ==
  LET p == ProjectStage(1, node, kids)
  IN  IF p # NoMatch THEN [result |-> p, lastIndex |-> li]
      ELSE LET f == FolderStage(node)
           IN  IF f # NoMatch THEN [result |-> f, lastIndex |-> li]
               ELSE LET n == NameStageWith(1, node, li)
                    IN  IF n.result # NoMatch THEN n
                        ELSE LET e == ExtensionStage(node)
                             IN  [result |-> IF e # NoMatch THEN e ELSE NullResult,
                                  lastIndex |-> n.lastIndex]

NoAge == [has |-> FALSE, value |-> 0]

\* items a scan meets: files that match two patterns, one pattern, an
\* extension, nothing; a project folder and an empty folder
RepeatInputs ==
  { [item |-> MakeNode(S_Annual_Tax_Invoice_2024_pdf, "file", AbsentList, NoAge),
     children |-> NullArg],
    [item |-> MakeNode(S_screenshot_2024_png, "file", AbsentList, NoAge),
     children |-> NullArg],
    [item |-> MakeNode(S_archive_zip, "file", AbsentList, NoAge),
     children |-> NullArg],
    [item |-> MakeNode(S_README, "file", AbsentList, NoAge),
     children |-> NullArg],
    [item |-> MakeNode(S_OldProj, "folder", PresentList(<<FileEntry(S_Cargo_toml)>>),
                       [has |-> TRUE, value |-> 400]),
     children |-> ListArg(<<FileEntry(S_Cargo_toml)>>)],
    [item |-> MakeNode(S_temp_tax_zip, "folder", PresentList(<<>>), NoAge),
     children |-> ListArg(<<>>)] }

InitialLastIndex == [k \in 1..Len(NAME_PATTERNS) |-> 0]

InitRepeat ==
  /\ pool \in [1..2 -> RepeatInputs]
  /\ lastIndex = InitialLastIndex
  /\ history = <<>>
  /\ ClassifyIdle /\ SizesIdle /\ ExecuteIdle /\ ScanIdle /\ PlanIdle /\ AppIdle

\* items.forEach(item => { const detection = detectFileCategory(item, item.children || null) ... })
CallDetect(i) ==
  /\ Len(history) < MaxCalls
  /\ LET r == detectFileCategoryWith(pool[i].item, pool[i].children, lastIndex)
     IN  /\ history' = Append(history, [arg |-> i, item |-> pool[i].item,
                                        children |-> pool[i].children,
                                        result |-> r.result])
         /\ lastIndex' = r.lastIndex
  /\ UNCHANGED pool
  /\ UNCHANGED <<classifyVars, sizeVars, executeVars, scanVars, planVars, appVars>>

NextRepeat == \E i \in 1..2 : CallDetect(i)

SpecRepeat == InitRepeat /\ [][NextRepeat]_vars

----------------------------------------------------------------------------
(* enrichWithSizes: the size pass over fileSystem.root *)

\* most nodes of a tree that is enumerated
MaxNodes == 4

\* node.size of a file: absent, 0, or a byte count
FileSizeOptions ==
  {[has |-> FALSE, value |-> 0], [has |-> TRUE, value |-> 0], [has |-> TRUE, value |-> 5]}

\* node.size of a folder as declared in the data: absent or a number
FolderSizeOptions == {[has |-> FALSE, value |-> 0], [has |-> TRUE, value |-> 7]}

SizeNode(type, kids, size) ==
  [name |-> IF type = "file" THEN "f" ELSE "d", type |-> type,
   hasChildren |-> kids.has, children |-> kids.list,
   hasSize |-> size.has, size |-> size.value]

\* the trees of exactly n nodes and the child lists of exactly m nodes; only a
\* folder has children, as in every tree the scanner and the mock data give
RECURSIVE TreesOfSize(_), ForestsOfSize(_)
TreesOfSize(n) ==
  (IF n = 1
   THEN {SizeNode("file", AbsentList, z) : z \in FileSizeOptions}
        \cup {SizeNode("folder", AbsentList, z) : z \in FolderSizeOptions}
   ELSE {})
  \cup {SizeNode("folder", PresentList(f), z) :
          f \in ForestsOfSize(n - 1), z \in FolderSizeOptions}

ForestsOfSize(m) ==
  IF m = 0 THEN {<<>>}
  ELSE UNION { {<<t>> \o f : t \in TreesOfSize(k), f \in ForestsOfSize(m - k)} :
               k \in 1..m }

\* node.size || 0
sizeOrZero(node) == IF node.hasSize THEN node.size ELSE 0

\* enrichedChildren.reduce((acc, child) => acc + (child.size || 0), 0)
RECURSIVE childrenSum(_)
childrenSum(enrichedChildren) ==
  IF enrichedChildren = <<>> THEN 0
  ELSE sizeOrZero(Head(enrichedChildren)) + childrenSum(Tail(enrichedChildren))

\* the size of a folder taken from its declared size when it has one
sizeOf_DeclaredFirst(currentNode, enrichedChildren) ==
  IF sizeOrZero(currentNode) # 0 THEN sizeOrZero(currentNode)
  ELSE childrenSum(enrichedChildren)

\* let size = currentNode.size || 0; if (type === 'folder') size = childrenSum
sizeOf(currentNode, enrichedChildren) ==
  IF currentNode.type = "folder" THEN childrenSum(enrichedChildren)
  ELSE sizeOrZero(currentNode)

\* traverse: { ...currentNode, children: enrichedChildren, size }
RECURSIVE traverse(_)
traverse(currentNode) ==
  LET enrichedChildren ==
        IF currentNode.hasChildren
        THEN [i \in 1..Len(currentNode.children) |-> traverse(currentNode.children[i])]
        ELSE <<>>
  IN  [currentNode EXCEPT !.hasChildren = TRUE, !.children = enrichedChildren,
                          !.hasSize = TRUE,
                          !.size = sizeOf(currentNode, enrichedChildren)]

enrichWithSizes(node) == traverse(node)

InitSizes ==
  /\ tree \in UNION {TreesOfSize(n) : n \in 1..MaxNodes}
  /\ sized = NotCalled
  /\ resized = NotCalled
  /\ ClassifyIdle /\ RepeatIdle /\ ExecuteIdle /\ ScanIdle /\ PlanIdle /\ AppIdle

\* const enriched = enrichWithSizes(fileSystem.root)
Enrich ==
  /\ sized = NotCalled
  /\ sized' = enrichWithSizes(tree)
  /\ UNCHANGED <<tree, resized>>
  /\ UNCHANGED <<classifyVars, repeatVars, executeVars, scanVars, planVars, appVars>>

\* enrichWithSizes applied to its own output
EnrichAgain ==
  /\ sized # NotCalled
  /\ resized = NotCalled
  /\ resized' = enrichWithSizes(sized)
  /\ UNCHANGED <<tree, sized>>
  /\ UNCHANGED <<classifyVars, repeatVars, executeVars, scanVars, planVars, appVars>>

NextSizes == Enrich \/ EnrichAgain

SpecSizes == InitSizes /\ [][NextSizes]_vars

----------------------------------------------------------------------------
(* POST /api/execute.  A path is [dir, name]: the directory as a sequence of
   segments, the last segment as a string of characters.  The file system maps
   each path at which an entry lies to the identity of that entry; directories
   on the way to an entry are implied, so mkdir(recursive) changes nothing. *)

\* most moves in the body of one request
MaxMoves == 3

Requests == {1, 2}

S_x_txt == <<"x",".","t","x","t">>
S_x_1_txt == <<"x"," ","(","1",")",".","t","x","t">>
S__env == <<".","e","n","v">>
S_gone == <<"g","o","n","e">>

\* path.join(dir, name)
pathJoin(dir, name) == [dir |-> dir, name |-> name]

\* path.dirname(p)
dirname(p) == p.dir

\* path.extname(p): from the last '.' of the last segment on; empty when there
\* is none or when it is the segment's first character
extname(p) ==
  LET i == lastIndexOf(p.name, ".")
  IN  IF i <= 0 THEN <<>> ELSE substring(p.name, i)

\* path.basename(p, ext): the last segment without the suffix ext
basename(p, ext) ==
  IF ext # <<>> /\ Len(p.name) > Len(ext)
     /\ SubSeq(p.name, Len(p.name) - Len(ext) + 1, Len(p.name)) = ext
  THEN SubSeq(p.name, 1, Len(p.name) - Len(ext))
  ELSE p.name

\* path.join(dir, `${base} (${counter})${ext}`)
nextFinalPath(fullTargetPath, n) ==
  LET ext == extname(fullTargetPath)
      base == basename(fullTargetPath, ext)
      dir == dirname(fullTargetPath)
  IN  pathJoin(dir, base \o <<" ", "(">> \o numberToString(n) \o <<")">> \o ext)

\* fs.access that rejects for every path
access_AlwaysRejects(files, p) == FALSE

\* await fs.access(p) resolves: an entry lies at p
access(files, p) == p \in DOMAIN files

\* fs.rename(from, to): the entry at from lies at to afterwards, in the place of
\* whatever lay there
rename(files, from, to) ==
  [p \in (DOMAIN files \ {from}) \cup {to} |-> IF p = to THEN files[from] ELSE files[p]]

\* fs.rm / fs.unlink
remove(files, p) == [q \in DOMAIN files \ {p} |-> files[q]]

basePath == <<"root">>
TargetDir == <<"T">>

\* path.join(basePath, targetPath), targetPath relative
fullTarget(targetPath) == pathJoin(basePath \o targetPath.dir, targetPath.name)

\* the sources: two files named alike in different folders, an entry that lies
\* at a target already, and a path at which nothing lies
SourceA == pathJoin(<<"root">>, S_x_txt)
SourceB == pathJoin(<<"root", "sub">>, S_x_txt)
SourceAtTarget == pathJoin(<<"root", "T">>, S_x_txt)
SourceGone == pathJoin(<<"root">>, S_gone)

MoveOp(source, name) ==
  [sourcePath |-> source, targetPath |-> pathJoin(TargetDir, name), operation |-> "MOVE"]

VacuumOp(source) ==
  [sourcePath |-> source, targetPath |-> pathJoin(<<>>, <<>>), operation |-> "VACUUM"]

\* the entries of a request body
MoveRequests ==
  { MoveOp(SourceA, S_x_txt), MoveOp(SourceB, S_x_txt), MoveOp(SourceA, S_x_1_txt),
    MoveOp(SourceB, S__env), MoveOp(SourceGone, S_x_txt),
    MoveOp(SourceAtTarget, S_x_txt),
    VacuumOp(SourceAtTarget), VacuumOp(SourceGone) }

Batches == UNION {[1..n -> MoveRequests] : n \in 0..MaxMoves}

\* the entries that lie in the target folder before the request
TargetEntries ==
  [p \in {pathJoin(<<"root", "T">>, S_x_txt), pathJoin(<<"root", "T">>, S_x_1_txt)}
     |-> IF p.name = S_x_txt THEN "t0" ELSE "t1"]

\* the file systems a request meets: both sources and T/.env lie there, the two
\* other target names may
InitialFileSystems ==
  { [p \in {SourceA, SourceB, pathJoin(<<"root", "T">>, S__env)} \cup D |->
       IF p = SourceA THEN "a" ELSE IF p = SourceB THEN "b"
       ELSE IF p \in D THEN TargetEntries[p] ELSE "e"] :
    D \in SUBSET DOMAIN TargetEntries }

NoPath == [dir |-> <<>>, name |-> <<>>]

InitExecute ==
  /\ fs \in InitialFileSystems
  /\ \E b \in Batches : moves = [r \in Requests |-> IF r = 1 THEN b ELSE <<>>]
  /\ idx = [r \in Requests |-> 1]
  /\ finalPath = [r \in Requests |-> NoPath]
  /\ counter = [r \in Requests |-> 1]
  /\ results = [r \in Requests |-> <<>>]
  /\ errors = [r \in Requests |-> <<>>]
  /\ pcx = [r \in Requests |-> IF r = 1 THEN "loop" ELSE "done"]
  /\ response = [r \in Requests |-> NotCalled]
  /\ log = <<>>
  /\ ClassifyIdle /\ RepeatIdle /\ SizesIdle /\ ScanIdle /\ PlanIdle /\ AppIdle

CurrentMove(r) == moves[r][idx[r]]

\* for (const move of moves) ... if (operation === 'VACUUM')
BeginVacuum(r) ==
  /\ pcx[r] = "loop" /\ idx[r] <= Len(moves[r])
  /\ CurrentMove(r).operation = "VACUUM"
  /\ pcx' = [pcx EXCEPT ![r] = "vacuum"]
  /\ UNCHANGED <<fs, moves, idx, finalPath, counter, results, errors, response, log>>
  /\ UNCHANGED <<classifyVars, repeatVars, sizeVars, scanVars, planVars, appVars>>

\* stat, then rm or unlink: results.push({sourcePath, operation: 'deleted'})
VacuumDone(r) ==
  /\ pcx[r] = "vacuum"
  /\ access(fs, CurrentMove(r).sourcePath)
  /\ fs' = remove(fs, CurrentMove(r).sourcePath)
  /\ results' = [results EXCEPT ![r] =
                   Append(@, [sourcePath |-> CurrentMove(r).sourcePath,
                              targetPath |-> NoPath, operation |-> "deleted"])]
  /\ idx' = [idx EXCEPT ![r] = @ + 1]
  /\ pcx' = [pcx EXCEPT ![r] = "loop"]
  /\ UNCHANGED <<moves, finalPath, counter, errors, response, log>>
  /\ UNCHANGED <<classifyVars, repeatVars, sizeVars, scanVars, planVars, appVars>>

\* stat rejects: errors.push({sourcePath, error})
VacuumFails(r) ==
  /\ pcx[r] = "vacuum"
  /\ ~access(fs, CurrentMove(r).sourcePath)
  /\ errors' = [errors EXCEPT ![r] =
                  Append(@, [sourcePath |-> CurrentMove(r).sourcePath])]
  /\ idx' = [idx EXCEPT ![r] = @ + 1]
  /\ pcx' = [pcx EXCEPT ![r] = "loop"]
  /\ UNCHANGED <<fs, moves, finalPath, counter, results, response, log>>
  /\ UNCHANGED <<classifyVars, repeatVars, sizeVars, scanVars, planVars, appVars>>

\* else: fullTargetPath, mkdir(targetDir), let finalPath = fullTargetPath, counter = 1
BeginMove(r) ==
  /\ pcx[r] = "loop" /\ idx[r] <= Len(moves[r])
  /\ CurrentMove(r).operation # "VACUUM"
  /\ finalPath' = [finalPath EXCEPT ![r] = fullTarget(CurrentMove(r).targetPath)]
  /\ counter' = [counter EXCEPT ![r] = 1]
  /\ pcx' = [pcx EXCEPT ![r] = "probe"]
  /\ UNCHANGED <<fs, moves, idx, results, errors, response, log>>
  /\ UNCHANGED <<classifyVars, repeatVars, sizeVars, scanVars, planVars, appVars>>

\* await fs.access(finalPath) resolves: the next name, counter++
ProbeExists(r) ==
  /\ pcx[r] = "probe"
  /\ access(fs, finalPath[r])
  /\ finalPath' = [finalPath EXCEPT ![r] =
                     nextFinalPath(fullTarget(CurrentMove(r).targetPath), counter[r])]
  /\ counter' = [counter EXCEPT ![r] = @ + 1]
  /\ UNCHANGED <<fs, moves, idx, results, errors, pcx, response, log>>
  /\ UNCHANGED <<classifyVars, repeatVars, sizeVars, scanVars, planVars, appVars>>

\* await fs.access(finalPath) rejects: break
ProbeFree(r) ==
  /\ pcx[r] = "probe"
  /\ ~access(fs, finalPath[r])
  /\ pcx' = [pcx EXCEPT ![r] = "rename"]
  /\ UNCHANGED <<fs, moves, idx, finalPath, counter, results, errors, response, log>>
  /\ UNCHANGED <<classifyVars, repeatVars, sizeVars, scanVars, planVars, appVars>>

\* what the history keeps of a call of fs.rename
RenameCall(r, done) ==
  [request |-> r, index |-> idx[r], sourcePath |-> CurrentMove(r).sourcePath,
   target |-> fullTarget(CurrentMove(r).targetPath), final |-> finalPath[r],
   existing |-> DOMAIN fs, done |-> done]

\* await fs.rename(sourcePath, finalPath); results.push({..., operation: 'moved'})
RenameDone(r) ==
  /\ pcx[r] = "rename"
  /\ CurrentMove(r).sourcePath \in DOMAIN fs
  /\ fs' = rename(fs, CurrentMove(r).sourcePath, finalPath[r])
  /\ results' = [results EXCEPT ![r] =
                   Append(@, [sourcePath |-> CurrentMove(r).sourcePath,
                              targetPath |-> finalPath[r], operation |-> "moved"])]
  /\ log' = Append(log, RenameCall(r, TRUE))
  /\ idx' = [idx EXCEPT ![r] = @ + 1]
  /\ pcx' = [pcx EXCEPT ![r] = "loop"]
  /\ UNCHANGED <<moves, finalPath, counter, errors, response>>
  /\ UNCHANGED <<classifyVars, repeatVars, sizeVars, scanVars, planVars, appVars>>

\* a rejected rename that ends the loop
RenameFails_Aborts(r) ==
  /\ pcx[r] = "rename"
  /\ CurrentMove(r).sourcePath \notin DOMAIN fs
  /\ errors' = [errors EXCEPT ![r] =
                  Append(@, [sourcePath |-> CurrentMove(r).sourcePath])]
  /\ log' = Append(log, RenameCall(r, FALSE))
  /\ idx' = [idx EXCEPT ![r] = Len(moves[r]) + 1]
  /\ pcx' = [pcx EXCEPT ![r] = "loop"]
  /\ UNCHANGED <<fs, moves, finalPath, counter, results, response>>
  /\ UNCHANGED <<classifyVars, repeatVars, sizeVars, scanVars, planVars, appVars>>

\* fs.rename rejects (no entry at sourcePath): catch, errors.push({move, error})
RenameFails(r) ==
  /\ pcx[r] = "rename"
  /\ CurrentMove(r).sourcePath \notin DOMAIN fs
  /\ errors' = [errors EXCEPT ![r] =
                  Append(@, [sourcePath |-> CurrentMove(r).sourcePath])]
  /\ log' = Append(log, RenameCall(r, FALSE))
  /\ idx' = [idx EXCEPT ![r] = @ + 1]
  /\ pcx' = [pcx EXCEPT ![r] = "loop"]
  /\ UNCHANGED <<fs, moves, finalPath, counter, results, response>>
  /\ UNCHANGED <<classifyVars, repeatVars, sizeVars, scanVars, planVars, appVars>>

\* res.json({success, results, errors, summary: {total, succeeded, failed}})
Respond(r) ==
  /\ pcx[r] = "loop" /\ idx[r] > Len(moves[r])
  /\ response' = [response EXCEPT ![r] =
                    [results |-> results[r], errors |-> errors[r],
                     total |-> Len(moves[r]), succeeded |-> Len(results[r]),
                     failed |-> Len(errors[r])]]
  /\ pcx' = [pcx EXCEPT ![r] = "done"]
  /\ UNCHANGED <<fs, moves, idx, finalPath, counter, results, errors, log>>
  /\ UNCHANGED <<classifyVars, repeatVars, sizeVars, scanVars, planVars, appVars>>

NextExecute ==
  \E r \in Requests :
    \/ BeginVacuum(r) \/ VacuumDone(r) \/ VacuumFails(r)
    \/ BeginMove(r) \/ ProbeExists(r) \/ ProbeFree(r)
    \/ RenameDone(r) \/ RenameFails(r)
    \/ Respond(r)

SpecExecute == InitExecute /\ [][NextExecute]_vars

\* most moves in the body of each of two requests that run at the same time
MaxConcurrentMoves == 1

ConcurrentBatches == UNION {[1..n -> MoveRequests] : n \in 1..MaxConcurrentMoves}

\* two requests received before either has finished: the handler of each runs
\* up to its next await, then either may go on
InitConcurrent ==
  /\ fs \in InitialFileSystems
  /\ moves \in [Requests -> ConcurrentBatches]
  /\ idx = [r \in Requests |-> 1]
  /\ finalPath = [r \in Requests |-> NoPath]
  /\ counter = [r \in Requests |-> 1]
  /\ results = [r \in Requests |-> <<>>]
  /\ errors = [r \in Requests |-> <<>>]
  /\ pcx = [r \in Requests |-> "loop"]
  /\ response = [r \in Requests |-> NotCalled]
  /\ log = <<>>
  /\ ClassifyIdle /\ RepeatIdle /\ SizesIdle /\ ScanIdle /\ PlanIdle /\ AppIdle

SpecConcurrent == InitConcurrent /\ [][NextExecute]_vars

----------------------------------------------------------------------------
(* POST /api/scan: the directory scanner, in its two versions
   (server/index.js and server.js) *)

S_a == <<"a">>
S__cache == <<".","c","a","c","h","e">>
S__zsh == <<".","z","s","h">>
S__bash == <<".","b","a","s","h">>
S__config == <<".","c","o","n","f","i","g">>
S_dollar == <<"$">>
S_dollar_RECYCLE == <<"$","R","E","C","Y","C","L","E">>
S_System_Volume_Information ==
  <<"S","y","s","t","e","m"," ","V","o","l","u","m","e"," ",
    "I","n","f","o","r","m","a","t","i","o","n">>

\* most entries of a scanned disk (the enumerated ones), and the length of
\* the one long chain of nested directories (what a link cycle looks like to
\* a scan for as long as the system resolves the path)
MaxDiskNodes == 4
ChainLength == 12

\* size in KB and age in days of every entry that stat can read
DiskSize == 4
DiskAge == 7

\* an entry of the disk: stat succeeds or not, readdir succeeds or not
DiskFile(name, statOk) ==
  [name |-> name, kind |-> "file", statOk |-> statOk, readdirOk |-> FALSE,
   size |-> DiskSize, age |-> DiskAge, entries |-> <<>>]

DiskDir(name, statOk, readdirOk, entries) ==
  [name |-> name, kind |-> "dir", statOk |-> statOk, readdirOk |-> readdirOk,
   size |-> DiskSize, age |-> DiskAge, entries |-> entries]

\* the name of the k-th entry of a directory: entry names are distinct within
\* a directory
EntryNames == <<S_a, S__git, S__cache, S_dollar_RECYCLE>>

DirAccess == {<<TRUE, TRUE>>, <<TRUE, FALSE>>, <<FALSE, FALSE>>}

\* the entries of exactly n nodes that can stand at position k of a directory,
\* and the entry lists of exactly m nodes that start at position k
RECURSIVE DiskTrees(_, _), DiskForests(_, _)
DiskTrees(n, k) ==
  (IF n = 1 THEN {DiskFile(EntryNames[k], ok) : ok \in BOOLEAN} ELSE {})
  \cup {DiskDir(EntryNames[k], a[1], a[2], f) :
          a \in DirAccess, f \in DiskForests(n - 1, 1)}

DiskForests(m, k) ==
  IF m = 0 THEN {<<>>}
  ELSE IF k > Len(EntryNames) THEN {}
  ELSE UNION { {<<t>> \o f : t \in DiskTrees(j, k), f \in DiskForests(m - j, k + 1)} :
               j \in 1..m }

\* n readable directories nested in one another
RECURSIVE DiskChain(_)
DiskChain(n) ==
  DiskDir(S_a, TRUE, TRUE, IF n = 1 THEN <<>> ELSE <<DiskChain(n - 1)>>)

Disks ==
  UNION {DiskTrees(n, 1) : n \in 1..MaxDiskNodes} \cup {DiskChain(ChainLength)}

\* the maxDepth of a request body: a number, left out, or a string that is
\* not a number
NumberDepth(n) == [kind |-> "number", n |-> n]
AbsentDepth == [kind |-> "absent", n |-> 0]
NaNDepth == [kind |-> "NaN", n |-> 0]

MaxDepthInputs == {NumberDepth(n) : n \in {0, 1, 2, 11}} \cup {AbsentDepth, NaNDepth}

\* currentDepth >= maxDepth; false when maxDepth does not convert to a number
depthReached(currentDepth, maxDepth) ==
  maxDepth.kind = "number" /\ currentDepth >= maxDepth.n

ScanNull == [type |-> "null"]

ScanFile(name, size, age) ==
  [name |-> name, type |-> "file", hasChildren |-> FALSE, children |-> <<>>,
   size |-> size, age |-> age]

ScanFolder(name, kids, size, age) ==
  [name |-> name, type |-> "folder", hasChildren |-> TRUE, children |-> kids,
   size |-> size, age |-> age]

\* children.reduce((acc, child) => acc + (child.size || 0), 0)
RECURSIVE reduceSizes(_)
reduceSizes(kids) ==
  IF kids = <<>> THEN 0 ELSE kids[1].size + reduceSizes(Tail(kids))

\* server/index.js: entry.startsWith('.') &&
\*                  !entry.match(/^\.(git|zsh|bash|dotnet|config)/)
SkippedIndex(name) ==
  /\ startsWith(name, <<".">>)
  /\ ~\E shown \in {S__git, S__zsh, S__bash, S__dotnet, S__config} :
        startsWith(name, shown)

\* server.js: entry.name.startsWith('$') || entry.name === 'System Volume Information'
SkippedServer(name) ==
  startsWith(name, S_dollar) \/ name = S_System_Volume_Information

\* server/index.js: getFileSize and getFileAge
getFileSize(entry) == IF entry.statOk THEN entry.size ELSE 0
getFileAge(entry) == IF entry.statOk THEN entry.age ELSE 0

\* server.js: getFileStats
getFileStats(entry) ==
  IF entry.statOk THEN [size |-> entry.size, age |-> entry.age]
  ELSE [size |-> 0, age |-> 0]

\* server/index.js: scanDirectory, and its loop over the entries of a directory
RECURSIVE scanDirectoryIndex(_, _, _), scanEntriesIndex(_, _, _)
scanDirectoryIndex(entry, maxDepth, currentDepth) ==
  IF depthReached(currentDepth, maxDepth) THEN ScanNull
  ELSE IF ~entry.statOk THEN ScanNull
  ELSE IF entry.kind # "dir"
       THEN ScanFile(entry.name, getFileSize(entry), getFileAge(entry))
  ELSE IF ~entry.readdirOk THEN ScanNull
  ELSE LET kids == scanEntriesIndex(entry.entries, maxDepth, currentDepth)
       IN ScanFolder(entry.name, kids, reduceSizes(kids), getFileAge(entry))

scanEntriesIndex(entries, maxDepth, currentDepth) ==
  IF entries = <<>> THEN <<>>
  ELSE LET rest == scanEntriesIndex(Tail(entries), maxDepth, currentDepth)
           childNode == scanDirectoryIndex(entries[1], maxDepth, currentDepth + 1)
       IN IF SkippedIndex(entries[1].name) THEN rest
          ELSE IF childNode # ScanNull THEN <<childNode>> \o rest
          ELSE rest

\* server.js: scanDirectory, and its loop over the entries of a directory
RECURSIVE scanDirectoryServer(_, _, _), scanEntriesServer(_, _, _)
scanDirectoryServer(entry, maxDepth, currentDepth) ==
  IF depthReached(currentDepth, maxDepth) THEN ScanNull
  ELSE IF ~entry.statOk THEN ScanNull
  ELSE IF entry.kind # "dir"
       THEN ScanFile(entry.name, getFileStats(entry).size, getFileStats(entry).age)
  ELSE IF ~entry.readdirOk THEN ScanNull
  ELSE LET kids == scanEntriesServer(entry.entries, maxDepth, currentDepth)
       IN ScanFolder(entry.name, kids, reduceSizes(kids), getFileStats(entry).age)

scanEntriesServer(entries, maxDepth, currentDepth) ==
  IF entries = <<>> THEN <<>>
  ELSE LET rest == scanEntriesServer(Tail(entries), maxDepth, currentDepth)
           e == entries[1]
           subDir == scanDirectoryServer(e, maxDepth, currentDepth + 1)
           fileInfo == getFileStats(e)
       IN IF SkippedServer(e.name) THEN rest
          ELSE IF e.kind = "dir"
               THEN (IF subDir # ScanNull THEN <<subDir>> \o rest ELSE rest)
          ELSE <<ScanFile(e.name, fileInfo.size, fileInfo.age)>> \o rest

\* server.js: validateDepth (parseInt of a number is the number, of the other
\* string NaN)
validateDepth(depth) ==
  IF depth.kind # "number" \/ depth.n < 1 \/ depth.n > 10
  THEN NumberDepth(3)
  ELSE depth

\* const { targetPath, maxDepth = 5 } = req.body   (server/index.js)
\* const { path: scanPath, maxDepth = 3 } = req.body   (server.js)
bodyDepth(maxDepth, default) ==
  IF maxDepth.kind = "absent" THEN NumberDepth(default) ELSE maxDepth

ScanResponse(status, scanned, root) ==
  [status |-> status, scanned |-> scanned, root |-> root]

InitScan ==
  /\ disk \in Disks
  /\ scanRequest = NotCalled
  /\ scanResponse = NotCalled
  /\ ClassifyIdle /\ RepeatIdle /\ SizesIdle /\ ExecuteIdle /\ PlanIdle /\ AppIdle

\* server/index.js: app.post('/api/scan')
ScanIndex ==
  /\ scanResponse = NotCalled
  /\ \E m \in MaxDepthInputs :
       LET maxDepth == bodyDepth(m, 5)
           root == scanDirectoryIndex(disk, maxDepth, 0)
       IN /\ scanRequest' = [server |-> "server/index.js", maxDepth |-> m,
                             depth |-> maxDepth]
          /\ scanResponse' =
               IF ~disk.statOk THEN ScanResponse(404, ScanNull, ScanNull)
               ELSE IF root = ScanNull THEN ScanResponse(500, ScanNull, ScanNull)
               ELSE ScanResponse(200, root,
                      [name |-> disk.name, type |-> "folder",
                       children |-> IF root.type = "folder" THEN root.children
                                    ELSE <<root>>,
                       size |-> root.size])
  /\ UNCHANGED disk
  /\ UNCHANGED <<classifyVars, repeatVars, sizeVars, executeVars, planVars, appVars>>

\* server.js: app.post('/api/scan')
ScanServer ==
  /\ scanResponse = NotCalled
  /\ \E m \in MaxDepthInputs :
       LET validatedDepth == validateDepth(bodyDepth(m, 3))
           scanned == scanDirectoryServer(disk, validatedDepth, 0)
       IN /\ scanRequest' = [server |-> "server.js", maxDepth |-> m,
                             depth |-> validatedDepth]
          /\ scanResponse' =
               IF scanned = ScanNull THEN ScanResponse(404, ScanNull, ScanNull)
               ELSE ScanResponse(200, scanned, scanned)
  /\ UNCHANGED disk
  /\ UNCHANGED <<classifyVars, repeatVars, sizeVars, executeVars, planVars, appVars>>

NextScan == ScanIndex \/ ScanServer

SpecScan == InitScan /\ [][NextScan]_vars

----------------------------------------------------------------------------

(* The move plan: runMoveDetection (the variant that uses the detection
   rules), the scan callback of App.tsx with its own rules, and the request
   that execute of App.tsx builds from the plan *)

S__UNSORTED_DESKTOP == <<"_","U","N","S","O","R","T","E","D","_","D","E","S","K","T","O","P">>
S_NextJS == <<"N","e","x","t","J","S">>
S_Unity == <<"U","n","i","t","y">>
S_PyTorch == <<"P","y","T","o","r","c","h">>
S_Invoice == <<"I","n","v","o","i","c","e">>
S_NDA == <<"N","D","A">>
S_Blood == <<"B","l","o","o","d">>
S_Passport == <<"P","a","s","s","p","o","r","t">>
S_Book == <<"B","o","o","k">>
S_Cheatsheet == <<"C","h","e","a","t","s","h","e","e","t">>
S_Export == <<"E","x","p","o","r","t">>
S_Screenshot == <<"S","c","r","e","e","n","s","h","o","t">>
S_Unity_Game == <<"U","n","i","t","y","-","G","a","m","e">>

\* most nodes below the root of a scanned tree
MaxPlanNodes == 3

\* the nodes a tree is made of: files the rules classify and a file they do
\* not, folders that are vacuumed, archived, kept, or the unsorted desktop
PlanFileNames == {S_notes_xyz, S_Annual_Tax_Invoice_2024_pdf, S_package_json}

PlanFolderKinds ==
  { <<S__UNSORTED_DESKTOP, [has |-> FALSE, value |-> 0]>>,
    <<S_my_temp_build, [has |-> TRUE, value |-> 45]>>,
    <<S_Unity_Game, [has |-> TRUE, value |-> 400]>>,
    <<S_src, [has |-> FALSE, value |-> 0]>> }

\* the trees of exactly n nodes and the children lists of exactly m nodes
RECURSIVE PlanTrees(_), PlanForests(_)
PlanTrees(n) ==
  (IF n = 1
   THEN {MakeNode(f, "file", AbsentList, [has |-> FALSE, value |-> 0]) : f \in PlanFileNames}
   ELSE {})
  \cup {MakeNode(k[1], "folder", PresentList(f), k[2]) :
          k \in PlanFolderKinds, f \in PlanForests(n - 1)}

PlanForests(m) ==
  IF m = 0 THEN {<<>>}
  ELSE {l \in UNION { {<<t>> \o f : t \in PlanTrees(j), f \in PlanForests(m - j)} :
                      j \in 1..m } :
          DistinctNames(l)}

PlanRoots ==
  {FolderEntry(<<"r","o","o","t">>, f) : f \in UNION {PlanForests(m) : m \in 0..MaxPlanNodes}}

\* a MoveAction; the item is a reference to a node of the tree, which the
\* names from the root's children down to the node stand for
MoveAction(node, at, target, reason) ==
  [item |-> node, at |-> at, target |-> target, reason |-> reason]

\* item.children || null
childrenOrNull(node) ==
  IF node.hasChildren THEN ListArg(node.children) ELSE NullArg

\* runMoveDetection: scanNodes(nodes, parentName), the nodes lying at parentAt
RECURSIVE scanNodes_OmitsInbox(_, _, _)
scanNodes_OmitsInbox(nodes, parentName, parentAt) ==
  IF nodes = <<>> THEN <<>>
  ELSE
    LET it == nodes[1]
        at == Append(parentAt, it.name)
        detection == detectFileCategory(it, childrenOrNull(it))
        own == IF detection # NullResult
               THEN <<MoveAction(it, at, detection.target, detection.reason)>>
               ELSE <<>>
        below == IF /\ it.type = "folder" /\ it.hasChildren /\ Len(it.children) > 0
                    /\ (detection = NullResult \/ detection.target # "VACUUM")
                 THEN scanNodes_OmitsInbox(it.children, it.name, at)
                 ELSE <<>>
    IN (IF it.name = S__UNSORTED_DESKTOP
        THEN <<MoveAction(it, at, "VACUUM", <<"Cleanup">>)>>
             \o (IF it.hasChildren THEN scanNodes_OmitsInbox(it.children, it.name, at) ELSE <<>>)
        ELSE own \o below)
       \o scanNodes_OmitsInbox(Tail(nodes), parentName, parentAt)

RECURSIVE scanNodes(_, _, _)
scanNodes(nodes, parentName, parentAt) ==
  IF nodes = <<>> THEN <<>>
  ELSE
    LET it == nodes[1]
        at == Append(parentAt, it.name)
        detection == detectFileCategory(it, childrenOrNull(it))
        own == IF detection # NullResult
               THEN <<MoveAction(it, at, detection.target, detection.reason)>>
               ELSE IF parentName = S__UNSORTED_DESKTOP /\ it.type = "file"
               THEN <<MoveAction(it, at, "00_Inbox", <<"Inbox Item">>)>>
               ELSE <<>>
        below == IF /\ it.type = "folder" /\ it.hasChildren /\ Len(it.children) > 0
                    /\ (detection = NullResult \/ detection.target # "VACUUM")
                 THEN scanNodes(it.children, it.name, at)
                 ELSE <<>>
    IN (IF it.name = S__UNSORTED_DESKTOP
        THEN <<MoveAction(it, at, "VACUUM", <<"Cleanup">>)>>
             \o (IF it.hasChildren THEN scanNodes(it.children, it.name, at) ELSE <<>>)
        ELSE own \o below)
       \o scanNodes(Tail(nodes), parentName, parentAt)

\* a call of detectFileCategory made by scanNodes throws
RECURSIVE scanThrows(_)
scanThrows(nodes) ==
  \E i \in 1..Len(nodes) :
    \/ /\ nodes[i].name # S__UNSORTED_DESKTOP
       /\ detectFileCategory(nodes[i], childrenOrNull(nodes[i])) = Thrown
    \/ nodes[i].hasChildren /\ scanThrows(nodes[i].children)

\* if (root.children) scanNodes(root.children); the moves handed to
\* setProposedMoves
runMoveDetection(root) ==
  IF root.hasChildren THEN scanNodes(root.children, <<>>, <<>>) ELSE <<>>

NoMove == [target |-> "none", reason |-> <<>>]

\* App.tsx: the branches 1 to 3 of its scanNodes, which give move or leave
\* it null
appRules(it, parentName) ==
  LET has(w) == includes(it.name, w)
      fileMove ==
        IF has(S_Export) \/ has(S_Screenshot) THEN [target |-> "05_Stage/Exports", reason |-> <<"Deliverable">>]
        ELSE IF has(S_Cheatsheet) THEN [target |-> "03_Library/Cheatsheets", reason |-> <<"Reference">>]
        ELSE IF has(S_Book) THEN [target |-> "03_Library/Books", reason |-> <<"Reference">>]
        ELSE IF has(S_Passport) THEN [target |-> "04_Private/Identity", reason |-> <<"Taxonomy">>]
        ELSE IF has(S_Blood) THEN [target |-> "04_Private/Medical", reason |-> <<"Taxonomy">>]
        ELSE IF has(S_NDA) THEN [target |-> "04_Private/Legal", reason |-> <<"Taxonomy">>]
        ELSE IF has(S_Invoice) THEN [target |-> "04_Private/Financial", reason |-> <<"Taxonomy">>]
        ELSE IF parentName = S__UNSORTED_DESKTOP THEN [target |-> "00_Inbox", reason |-> <<"Inbox Item">>]
        ELSE NoMove
  IN IF startsWith(it.name, <<".">>)
     THEN (IF it.name = S__dotnet THEN [target |-> "02_Studio/SDKs", reason |-> <<"SDK">>]
           ELSE [target |-> "02_Studio/Config", reason |-> <<"Config">>])
     ELSE IF it.type = "folder"
     THEN (IF it.hasChildren /\ Len(it.children) = 0
           THEN [target |-> "VACUUM", reason |-> <<"Empty Dir">>]
           ELSE IF has(S_NextJS) THEN [target |-> "01_Build/Web", reason |-> <<"Active">>]
           ELSE IF has(S_Unity)
           THEN (IF (IF it.hasAge THEN it.age ELSE 0) > 180
                 THEN [target |-> "99_Archives/2023",
                       reason |-> <<"S","t","a","l","e"," ","(">> \o numberToString(it.age) \o <<"d",")">>]
                 ELSE [target |-> "01_Build/Interactive", reason |-> <<"Active">>])
           ELSE IF has(S_PyTorch) THEN [target |-> "01_Build/Data", reason |-> <<"Python Env">>]
           ELSE NoMove)
     ELSE fileMove

\* App.tsx: scanNodes(nodes, parentName) of the scan callback; the move of the
\* unsorted desktop is pushed after those of its children
RECURSIVE scanNodesApp(_, _, _)
scanNodesApp(nodes, parentName, parentAt) ==
  IF nodes = <<>> THEN <<>>
  ELSE
    LET it == nodes[1]
        at == Append(parentAt, it.name)
        move == appRules(it, parentName)
    IN (IF it.name = S__UNSORTED_DESKTOP
        THEN (IF it.hasChildren THEN scanNodesApp(it.children, it.name, at) ELSE <<>>)
             \o <<MoveAction(it, at, "VACUUM", <<"Cleanup">>)>>
        ELSE IF move # NoMove THEN <<MoveAction(it, at, move.target, move.reason)>>
        ELSE <<>>)
       \o scanNodesApp(Tail(nodes), parentName, parentAt)

\* the targetPath of the application: the directory scanned
targetPath == <<"root">>

\* `${rootPath}/${currentPath}${node.name}`.replace(/\/+/g, '/'), called on
\* move.item with currentPath ''
buildFullPath(move, rootPath, currentPath) ==
  pathJoin(rootPath \o currentPath, move.item.name)

\* proposedMoves.map(...) of execute; the target is kept as the folder given
\* and the name
movesWithPaths(proposed) ==
  [i \in 1..Len(proposed) |->
     [sourcePath |-> buildFullPath(proposed[i], targetPath, <<>>),
      targetPath |-> IF proposed[i].target = "VACUUM" THEN pathJoin(<<>>, <<>>)
                     ELSE pathJoin(<<proposed[i].target>>, proposed[i].item.name),
      operation |-> IF proposed[i].target = "VACUUM" THEN "VACUUM" ELSE "MOVE",
      itemName |-> proposed[i].item.name]]

InitPlan ==
  /\ planRoot \in PlanRoots
  /\ planMoves = NotCalled
  /\ planRequests = NotCalled
  /\ ClassifyIdle /\ RepeatIdle /\ SizesIdle /\ ExecuteIdle /\ ScanIdle /\ AppIdle

\* runMoveDetection(root) up to setProposedMoves(moves)
RunMoveDetection ==
  /\ planMoves = NotCalled
  /\ planMoves' =
       IF planRoot.hasChildren /\ scanThrows(planRoot.children)
       THEN [by |-> "runMoveDetection", thrown |-> TRUE, moves |-> <<>>]
       ELSE [by |-> "runMoveDetection", thrown |-> FALSE,
             moves |-> runMoveDetection(planRoot)]
  /\ UNCHANGED <<planRoot, planRequests>>
  /\ UNCHANGED <<classifyVars, repeatVars, sizeVars, executeVars, scanVars, appVars>>

\* App.tsx: the scan callback up to setProposedMoves(moves)
ScanCallback ==
  /\ planMoves = NotCalled
  /\ planMoves' = [by |-> "App.tsx", thrown |-> FALSE,
                   moves |-> IF planRoot.hasChildren
                             THEN scanNodesApp(planRoot.children, <<>>, <<>>) ELSE <<>>]
  /\ UNCHANGED <<planRoot, planRequests>>
  /\ UNCHANGED <<classifyVars, repeatVars, sizeVars, executeVars, scanVars, appVars>>

\* App.tsx: execute with real files, up to the call of executeFileMoves
BuildRequest ==
  /\ planMoves # NotCalled /\ planMoves.by = "App.tsx"
  /\ planRequests = NotCalled
  /\ planRequests' = [moves |-> movesWithPaths(planMoves.moves)]
  /\ UNCHANGED <<planRoot, planMoves>>
  /\ UNCHANGED <<classifyVars, repeatVars, sizeVars, executeVars, scanVars, appVars>>

NextPlan == RunMoveDetection \/ ScanCallback \/ BuildRequest

SpecPlan == InitPlan /\ [][NextPlan]_vars

----------------------------------------------------------------------------

(* The application: runScan, execute and undo of App.tsx and of the variant
   that calls runMoveDetection, with the timers and requests they leave
   pending.  A callback sees the state of the render in which its handler was
   created: what it reads from the closure is kept with the callback. *)

\* most clicks on the scan, execute and undo buttons
MaxClicks == 6

\* INITIAL_FILE_SYSTEM, cut down to the unsorted desktop and one file in it
MockRoot ==
  FolderEntry(<<"r","o","o","t">>,
              <<FolderEntry(S__UNSORTED_DESKTOP, <<FileEntry(S_notes_xyz)>>)>>)

\* the trees /api/scan answers with
ScannedRoots ==
  { FolderEntry(<<"r","o","o","t">>, <<FileEntry(S_Annual_Tax_Invoice_2024_pdf)>>),
    FolderEntry(<<"r","o","o","t">>, <<>>) }

Variants == {"App.tsx", "runMoveDetection"}

\* a progress value n / d
Fraction(n, d) == IF n % d = 0 THEN [num |-> n \div d, den |-> 1] ELSE [num |-> n, den |-> d]

\* addLog(msg): setLogs(prev => [entry, ...prev])
addLog(prev, msg, detail) == <<[msg |-> msg, detail |-> detail]>> \o prev

\* a pending callback: a request awaited, a timer or an interval, with what
\* its closure holds
Callback(kind, id, step, root, planned) ==
  [kind |-> kind, id |-> id, step |-> step, root |-> root, moves |-> planned]

NoRoot == FolderEntry(<<>>, <<>>)

\* the moves the scan callback of App.tsx builds from a root
scanCallbackMoves(root) ==
  IF root.hasChildren THEN scanNodesApp(root.children, <<>>, <<>>) ELSE <<>>

\* the undo timers set before the scan with this id was started have run:
\* they run 1000 ms after their click, a chain of two 800 ms timers ends later
EarlierUndoDone(id) == ~\E c \in pending : c.kind = "undo" /\ c.id < id

InitApp ==
  /\ appVariant \in Variants
  /\ useRealFiles \in BOOLEAN
  /\ fileSystem = [root |-> MockRoot]
  /\ appState = "IDLE"
  /\ progress = Fraction(0, 1)
  /\ proposedMoves = <<>>
  /\ logs = <<>>
  /\ pending = {}
  /\ clicks = 0
  /\ ClassifyIdle /\ RepeatIdle /\ SizesIdle /\ ExecuteIdle /\ ScanIdle /\ PlanIdle

\* the scan button, shown in IDLE: runScan up to its first await or timer
ClickScan ==
  /\ appState = "IDLE" /\ clicks < MaxClicks
  /\ clicks' = clicks + 1
  /\ appState' = "SCANNING"
  /\ IF useRealFiles
     THEN /\ logs' = addLog(addLog(logs, "Initializing Heuristic Engine", <<>>),
                            "Scanning real directory", <<>>)
          /\ progress' = Fraction(30, 1)
          /\ pending' = pending \cup {Callback("fetch", clicks + 1, 0, fileSystem.root, <<>>)}
     ELSE /\ logs' = addLog(logs, "Initializing Heuristic Engine", <<>>)
          /\ progress' = Fraction(10, 1)
          /\ pending' = pending \cup
               {Callback(IF appVariant = "App.tsx" THEN "analyze" ELSE "mock",
                         clicks + 1, 0, fileSystem.root, <<>>)}
  /\ UNCHANGED <<appVariant, useRealFiles, fileSystem, proposedMoves>>
  /\ UNCHANGED <<classifyVars, repeatVars, sizeVars, executeVars, scanVars, planVars>>

\* App.tsx: fetchDirectoryData resolves; setFileSystem(data), then the first
\* timer is set by the same closure
FetchResolvesApp ==
  /\ appVariant = "App.tsx"
  /\ \E c \in pending, data \in ScannedRoots :
       /\ c.kind = "fetch"
       /\ fileSystem' = [root |-> data]
       /\ logs' = addLog(logs, "Directory scan complete", <<>>)
       /\ progress' = Fraction(50, 1)
       /\ pending' = (pending \ {c}) \cup {Callback("analyze", c.id, 0, c.root, <<>>)}
  /\ UNCHANGED <<appVariant, useRealFiles, appState, proposedMoves, clicks>>
  /\ UNCHANGED <<classifyVars, repeatVars, sizeVars, executeVars, scanVars, planVars>>

\* the variant: fetch resolves; setFileSystem({ root: data.root }), then the
\* timer that calls runMoveDetection(data.root)
FetchResolvesDetect ==
  /\ appVariant = "runMoveDetection"
  /\ \E c \in pending, data \in ScannedRoots :
       /\ c.kind = "fetch"
       /\ fileSystem' = [root |-> data]
       /\ logs' = addLog(logs, "Real file system loaded successfully", <<>>)
       /\ progress' = Fraction(60, 1)
       /\ pending' = (pending \ {c}) \cup {Callback("detect", c.id, 0, data, <<>>)}
  /\ UNCHANGED <<appVariant, useRealFiles, appState, proposedMoves, clicks>>
  /\ UNCHANGED <<classifyVars, repeatVars, sizeVars, executeVars, scanVars, planVars>>

\* the request fails: catch of runScan
FetchFails ==
  /\ \E c \in pending :
       /\ c.kind = "fetch"
       /\ pending' = pending \ {c}
  /\ logs' = addLog(logs, "Error scanning directory", <<>>)
  /\ appState' = "IDLE"
  /\ progress' = Fraction(0, 1)
  /\ UNCHANGED <<appVariant, useRealFiles, fileSystem, proposedMoves, clicks>>
  /\ UNCHANGED <<classifyVars, repeatVars, sizeVars, executeVars, scanVars, planVars>>

\* App.tsx: the first timer of runScan; the moves are built from
\* fileSystem.root of the closure
AnalyzeTimer ==
  /\ \E c \in pending :
       /\ c.kind = "analyze"
       /\ pending' = (pending \ {c})
                       \cup {Callback("review", c.id, 0, c.root, scanCallbackMoves(c.root))}
  /\ logs' = addLog(logs, "Analyzing directory structure", <<>>)
  /\ progress' = Fraction(60, 1)
  /\ UNCHANGED <<appVariant, useRealFiles, fileSystem, appState, proposedMoves, clicks>>
  /\ UNCHANGED <<classifyVars, repeatVars, sizeVars, executeVars, scanVars, planVars>>

\* App.tsx: the second timer of runScan
ReviewTimer ==
  /\ \E c \in pending :
       /\ c.kind = "review"
       /\ EarlierUndoDone(c.id)
       /\ pending' = pending \ {c}
       /\ proposedMoves' = c.moves
       /\ logs' = addLog(logs, "Scan Complete", Len(c.moves))
  /\ progress' = Fraction(100, 1)
  /\ appState' = "REVIEW"
  /\ UNCHANGED <<appVariant, useRealFiles, fileSystem, clicks>>
  /\ UNCHANGED <<classifyVars, repeatVars, sizeVars, executeVars, scanVars, planVars>>

\* the variant: the first timer of the mock scan
MockTimer ==
  /\ \E c \in pending :
       /\ c.kind = "mock"
       /\ pending' = (pending \ {c}) \cup {Callback("detect", c.id, 1, c.root, <<>>)}
  /\ logs' = addLog(logs, "Scanning mock directory structure", <<>>)
  /\ progress' = Fraction(40, 1)
  /\ UNCHANGED <<appVariant, useRealFiles, fileSystem, appState, proposedMoves, clicks>>
  /\ UNCHANGED <<classifyVars, repeatVars, sizeVars, executeVars, scanVars, planVars>>

\* the variant: the timer that calls runMoveDetection(root); step 1 marks the
\* second timer of the mock scan
DetectTimer ==
  /\ \E c \in pending :
       /\ c.kind = "detect"
       /\ c.step = 1 => EarlierUndoDone(c.id)
       /\ pending' = pending \ {c}
       /\ proposedMoves' = runMoveDetection(c.root)
       /\ logs' = addLog(logs, "Scan Complete", Len(runMoveDetection(c.root)))
  /\ progress' = Fraction(100, 1)
  /\ appState' = "REVIEW"
  /\ UNCHANGED <<appVariant, useRealFiles, fileSystem, clicks>>
  /\ UNCHANGED <<classifyVars, repeatVars, sizeVars, executeVars, scanVars, planVars>>

\* the execute button, shown in REVIEW: execute up to its await or interval;
\* only App.tsx executes on real files
ClickExecute ==
  /\ appState = "REVIEW" /\ clicks < MaxClicks
  /\ clicks' = clicks + 1
  /\ appState' = "PROCESSING"
  /\ IF appVariant = "App.tsx" /\ useRealFiles
     THEN /\ logs' = addLog(addLog(logs, "Preparing to execute file operations", <<>>),
                            "Executing file operations", Len(proposedMoves))
          /\ progress' = Fraction(10, 1)
          /\ pending' = pending \cup
               {Callback("execute", clicks + 1, 0, NoRoot, proposedMoves)}
     ELSE /\ logs' = logs
          /\ progress' = progress
          /\ pending' = pending \cup
               {Callback("interval", clicks + 1, 0, NoRoot, proposedMoves)}
  /\ UNCHANGED <<appVariant, useRealFiles, fileSystem, proposedMoves>>
  /\ UNCHANGED <<classifyVars, repeatVars, sizeVars, executeVars, scanVars, planVars>>

\* the log entries of result.results, then of result.errors, for a response
\* in which the moves at the indices of failed are in errors
RECURSIVE logResults(_, _, _, _)
logResults(prev, planned, failed, i) ==
  IF i > Len(planned) THEN prev
  ELSE logResults(
         IF i \in failed THEN prev
         ELSE addLog(prev, IF planned[i].target = "VACUUM" THEN "Vacuumed" ELSE "Moved",
                     planned[i].at),
         planned, failed, i + 1)

RECURSIVE logErrors(_, _, _, _)
logErrors(prev, planned, failed, i) ==
  IF i > Len(planned) THEN prev
  ELSE logErrors(IF i \in failed THEN addLog(prev, "Error", planned[i].at) ELSE prev,
                 planned, failed, i + 1)

\* App.tsx: executeFileMoves resolves
ExecuteResolves ==
  /\ \E c \in pending :
       /\ c.kind = "execute"
       /\ pending' = pending \ {c}
       /\ \E failed \in SUBSET (1..Len(c.moves)) :
            logs' = addLog(logErrors(logResults(logs, c.moves, failed, 1), c.moves, failed, 1),
                           "Orchestration Complete", Len(c.moves) - Cardinality(failed))
  /\ progress' = Fraction(100, 1)
  /\ appState' = "EXECUTED"
  /\ UNCHANGED <<appVariant, useRealFiles, fileSystem, proposedMoves, clicks>>
  /\ UNCHANGED <<classifyVars, repeatVars, sizeVars, executeVars, scanVars, planVars>>

\* App.tsx: executeFileMoves throws (the request fails or is answered with an
\* error status): catch of execute
ExecuteThrows ==
  /\ \E c \in pending :
       /\ c.kind = "execute"
       /\ pending' = pending \ {c}
  /\ logs' = addLog(logs, "Execution failed", <<>>)
  /\ appState' = "IDLE"
  /\ UNCHANGED <<appVariant, useRealFiles, fileSystem, progress, proposedMoves, clicks>>
  /\ UNCHANGED <<classifyVars, repeatVars, sizeVars, executeVars, scanVars, planVars>>

\* the interval of the simulated execution, a move left
Tick ==
  /\ \E c \in pending :
       /\ c.kind = "interval"
       /\ c.step < Len(c.moves)
       /\ logs' = addLog(logs,
                         IF c.moves[c.step + 1].target = "VACUUM" THEN "Vacuumed" ELSE "Moved",
                         c.moves[c.step + 1].at)
       /\ progress' = Fraction((c.step + 1) * 100, Len(c.moves))
       /\ pending' = (pending \ {c}) \cup {[c EXCEPT !.step = c.step + 1]}
  /\ UNCHANGED <<appVariant, useRealFiles, fileSystem, appState, proposedMoves, clicks>>
  /\ UNCHANGED <<classifyVars, repeatVars, sizeVars, executeVars, scanVars, planVars>>

\* the interval, no move left: clearInterval
TickDone ==
  /\ \E c \in pending :
       /\ c.kind = "interval"
       /\ c.step >= Len(c.moves)
       /\ pending' = pending \ {c}
  /\ appState' = "EXECUTED"
  /\ logs' = addLog(logs, "Orchestration Complete (Simulated)", <<>>)
  /\ UNCHANGED <<appVariant, useRealFiles, fileSystem, progress, proposedMoves, clicks>>
  /\ UNCHANGED <<classifyVars, repeatVars, sizeVars, executeVars, scanVars, planVars>>

\* the undo button, shown in EXECUTED
ClickUndo ==
  /\ appState = "EXECUTED" /\ clicks < MaxClicks
  /\ clicks' = clicks + 1
  /\ logs' = addLog(logs, "Reverting transaction log", <<>>)
  /\ pending' = pending \cup {Callback("undo", clicks + 1, 0, NoRoot, <<>>)}
  /\ UNCHANGED <<appVariant, useRealFiles, fileSystem, appState, progress, proposedMoves>>
  /\ UNCHANGED <<classifyVars, repeatVars, sizeVars, executeVars, scanVars, planVars>>

\* the timer of undo
UndoTimer ==
  /\ \E c \in pending :
       /\ c.kind = "undo"
       /\ pending' = pending \ {c}
  /\ appState' = "IDLE"
  /\ proposedMoves' = <<>>
  /\ logs' = addLog(<<>>, "Rollback successful", <<>>)
  /\ progress' = Fraction(0, 1)
  /\ UNCHANGED <<appVariant, useRealFiles, fileSystem, clicks>>
  /\ UNCHANGED <<classifyVars, repeatVars, sizeVars, executeVars, scanVars, planVars>>

\* what runs without the user: timers, intervals and answers
Callbacks ==
  \/ FetchResolvesApp \/ FetchResolvesDetect \/ FetchFails \/ AnalyzeTimer
  \/ ReviewTimer \/ MockTimer \/ DetectTimer \/ ExecuteResolves \/ ExecuteThrows
  \/ Tick \/ TickDone \/ UndoTimer

NextApp ==
  \/ ClickScan \/ FetchResolvesApp \/ FetchResolvesDetect \/ FetchFails
  \/ AnalyzeTimer \/ ReviewTimer \/ MockTimer \/ DetectTimer
  \/ ClickExecute \/ ExecuteResolves \/ ExecuteThrows \/ Tick \/ TickDone
  \/ ClickUndo \/ UndoTimer

\* every timer set runs and every request is answered
SpecApp == InitApp /\ [][NextApp]_vars /\ WF_vars(Callbacks)

----------------------------------------------------------------------------

(* Vocabulary of the properties, stated on the inputs of the call *)

Returned == pc = "returned"

IsFolder == item.type = "folder"

\* the call passed the node's own children list
CalledWithOwnChildren ==
  ~children.isNull /\ item.hasChildren /\ children.list = item.children

\* the children list passed has an entry with one of these names
ArgHasEntryNamed(names) ==
  ~children.isNull /\ \E i \in 1..Len(children.list) : children.list[i].name \in names

\* the children list passed has an entry of type folder with this name
ArgHasFolderNamed(name) ==
  ~children.isNull
  /\ \E i \in 1..Len(children.list) :
       children.list[i].name = name /\ children.list[i].type = "folder"

ProjectCategories ==
  {"PROJECT_GIT", "PROJECT_NODE", "PROJECT_PYTHON", "PROJECT_UNITY",
   "PROJECT_RUST", "PROJECT_GO", "PROJECT_JAVA"}

\* the seven project signatures, in the order Git, Node, Python, Unity, Rust,
\* Go, Java
SignatureHolds(k) ==
  CASE k = 1 -> ArgHasEntryNamed({S__git})
    [] k = 2 -> ArgHasEntryNamed({S_package_json})
    [] k = 3 -> ArgHasEntryNamed({S_requirements_txt, S_setup_py,
                                  S_pyproject_toml, S_Pipfile})
    [] k = 4 -> ArgHasFolderNamed(S_Assets) /\ ArgHasEntryNamed({S_ProjectSettings})
    [] k = 5 -> ArgHasEntryNamed({S_Cargo_toml})
    [] k = 6 -> ArgHasEntryNamed({S_go_mod})
    [] k = 7 -> ArgHasEntryNamed({S_pom_xml, S_build_gradle})

SignatureCategory ==
  <<"PROJECT_GIT", "PROJECT_NODE", "PROJECT_PYTHON", "PROJECT_UNITY",
    "PROJECT_RUST", "PROJECT_GO", "PROJECT_JAVA">>

SatisfiedSignatures == {k \in 1..7 : IsFolder /\ SignatureHolds(k)}

Least(S) == CHOOSE x \in S : \A y \in S : x <= y

HasCategory(c) == result.kind = "result" /\ result.category = c

----------------------------------------------------------------------------
(* C1 *)

ResultFields == {"kind", "category", "target", "priority", "reason"}

\* C1: for every node and every children argument (a list or null) the call
\* returns null or exactly one record {category, target, priority, reason};
\* it never throws.
C1_ReturnsNullOrOneResult ==
  Returned =>
    \/ result = NullResult
    \/ /\ result.kind = "result"
       /\ DOMAIN result = ResultFields
       /\ result.category \in DOMAIN FILE_CATEGORIES
       /\ result.priority \in Nat
       /\ Len(result.reason) >= 1

\* a folder with neither children nor age, classified with the argument
\* omitted, got a result
C1_Witness ==
  /\ Returned /\ IsFolder /\ children.isNull
  /\ ~item.hasChildren /\ ~item.hasAge
  /\ result.kind = "result"

----------------------------------------------------------------------------
(* C2 *)

ProjectMatches == {i \in 1..Len(PROJECT_DETECTORS) : DetectorCheck(i, item, children) = "true"}

FolderMatches ==
  IF IsFolder
  THEN {i \in 1..Len(FOLDER_RULES) : FolderRuleCheck(i, item) = "true"}
  ELSE {}

NameMatches ==
  LET lower == toLowerCase(item.name)
  IN  {i \in 1..Len(NAME_PATTERNS) : includes(lower, toLowerCase(NAME_PATTERNS[i].pattern))}

\* the text of the name from its last "." on, in lower case, is the key
ExtensionMatches ==
  IF item.type = "file"
  THEN LET dots == {k \in 1..Len(item.name) : item.name[k] = "."}
       IN  IF dots = {} THEN {}
           ELSE LET last == CHOOSE k \in dots : \A j \in dots : j <= k
                    key == toLowerCase(SubSeq(item.name, last, Len(item.name)))
                IN  {i \in 1..Len(EXTENSION_RULES) : EXTENSION_RULES[i].ext = key}
  ELSE {}

\* the first matching rule, the stages tried in the fixed order
FirstMatchReference ==
  IF ProjectMatches # {}
  THEN LET d == PROJECT_DETECTORS[Least(ProjectMatches)]
       IN  DetectionResult(d.category, d.reason)
  ELSE IF FolderMatches # {}
  THEN LET i == Least(FolderMatches)
       IN  DetectionResult(FOLDER_RULES[i].category, FolderRuleReason(i, item))
  ELSE IF NameMatches # {}
  THEN LET n == NAME_PATTERNS[Least(NameMatches)]
       IN  DetectionResult(n.category, n.reason)
  ELSE IF ExtensionMatches # {}
  THEN LET e == EXTENSION_RULES[Least(ExtensionMatches)]
       IN  DetectionResult(e.category, e.reason)
  ELSE NullResult

\* C2: the result is that of the first matching rule when the rules are tried in
\* the order project detectors, folder rules (folders only), name patterns,
\* extension table (files only); it is null exactly when no rule matches.
C2_FirstMatchInFixedOrder ==
  Returned =>
    /\ result = FirstMatchReference
    /\ (result = NullResult) <=>
         (ProjectMatches \cup FolderMatches \cup NameMatches \cup ExtensionMatches = {})

\* rules of three stages match the same folder, and the earliest stage decided
C2_Witness ==
  /\ Returned
  /\ ProjectMatches # {} /\ Cardinality(FolderMatches) >= 2 /\ NameMatches # {}
  /\ HasCategory("PROJECT_RUST")

----------------------------------------------------------------------------
(* C3 *)

RustResult ==
  [kind |-> "result", category |-> "PROJECT_RUST", target |-> "01_Build/Systems",
   priority |-> 10, reason |-> <<"Rust Project">>]

\* C3 as claimed: every folder with a direct child named "Cargo.toml" and no
\* child named ".git" or "package.json" is classified PROJECT_RUST (target
\* 01_Build/Systems), whatever its other children.
C3_Original ==
  (Returned /\ IsFolder /\ CalledWithOwnChildren
   /\ ArgHasEntryNamed({S_Cargo_toml})
   /\ ~ArgHasEntryNamed({S__git, S_package_json}))
  => (HasCategory("PROJECT_RUST") /\ result.target = "01_Build/Systems")

\* C3 (amended): every folder classified with a children list that has an entry
\* named "Cargo.toml", no entry named ".git", "package.json",
\* "requirements.txt", "setup.py", "pyproject.toml" or "Pipfile", and not both
\* an "Assets" folder and a "ProjectSettings" entry, is classified PROJECT_RUST
\* (target 01_Build/Systems), whatever its own name, age and other children.
C3_CargoFolderIsRust ==
  (Returned /\ IsFolder
   /\ ArgHasEntryNamed({S_Cargo_toml})
   /\ ~ArgHasEntryNamed({S__git, S_package_json, S_requirements_txt,
                         S_setup_py, S_pyproject_toml, S_Pipfile})
   /\ ~(ArgHasFolderNamed(S_Assets) /\ ArgHasEntryNamed({S_ProjectSettings})))
  => result = RustResult

\* a folder aged 400 whose own name has "temp", a name pattern and a listed
\* extension, holding Cargo.toml next to a later detector's marker
C3_Witness ==
  /\ Returned /\ IsFolder /\ CalledWithOwnChildren
  /\ item.name = S_temp_tax_zip /\ item.hasAge /\ item.age = 400
  /\ ArgHasEntryNamed({S_Cargo_toml}) /\ ArgHasEntryNamed({S_go_mod})
  /\ result = RustResult

----------------------------------------------------------------------------
(* C4 *)

\* C4: when the children satisfy several project detectors, the result is the
\* category of the earliest satisfied one in the order Git, Node, Python,
\* Unity, Rust, Go, Java; ".git" with "package.json" is PROJECT_GIT, "go.mod"
\* with "pom.xml" is PROJECT_GO.
C4_EarliestDetectorWins ==
  Returned =>
    /\ SatisfiedSignatures # {} =>
         HasCategory(SignatureCategory[Least(SatisfiedSignatures)])
    /\ (IsFolder /\ ArgHasEntryNamed({S__git}) /\ ArgHasEntryNamed({S_package_json}))
         => HasCategory("PROJECT_GIT")
    /\ (IsFolder /\ children.list \in
          { <<FileEntry(S_go_mod), FileEntry(S_pom_xml)>>,
            <<FileEntry(S_pom_xml), FileEntry(S_go_mod)>> })
         => HasCategory("PROJECT_GO")

\* the later detector's marker stands first in the list, the earlier detector wins
C4_Witness ==
  /\ Returned /\ IsFolder
  /\ children.list = <<FileEntry(S_pom_xml), FileEntry(S_go_mod)>>
  /\ Cardinality(SatisfiedSignatures) = 2
  /\ HasCategory("PROJECT_GO")

----------------------------------------------------------------------------
(* C5 *)

\* the children passed hold one half of the Unity signature only, or an
\* "Assets" entry that is a file
HalfUnity ==
  /\ ArgHasEntryNamed({S_Assets, S_ProjectSettings})
  /\ ~(ArgHasFolderNamed(S_Assets) /\ ArgHasEntryNamed({S_ProjectSettings}))

\* the first folder rule that holds of the node, 0 when none does
FirstFolderRule ==
  IF childrenLengthOrZero(item) = 0 THEN 1
  ELSE IF includes(item.name, S_temp) /\ ageOrZero(item) > 30 THEN 2
  ELSE IF ageOrZero(item) > 365 /\ item.name[1] # "." THEN 3
  ELSE IF item.name = S__dotnet THEN 4
  ELSE IF item.name[1] = "." THEN 5
  ELSE 0

FolderRuleCategory ==
  <<"VACUUM_EMPTY", "VACUUM_TEMP", "ARCHIVE_STALE", "SDK_DOTNET", "CONFIG_DOTFILE">>

\* C5: a folder is PROJECT_UNITY only if its children hold both an "Assets"
\* entry of type folder and a "ProjectSettings" entry; with one of the two only
\* (or an "Assets" file) and no other project marker it is never PROJECT_UNITY
\* and is classified by the folder rules.
C5_UnityNeedsBoth ==
  Returned =>
    /\ HasCategory("PROJECT_UNITY") =>
         (IsFolder /\ ArgHasFolderNamed(S_Assets)
          /\ ArgHasEntryNamed({S_ProjectSettings}))
    /\ (IsFolder /\ HalfUnity /\ SatisfiedSignatures = {}) =>
         /\ ~(result.kind = "result" /\ result.category \in ProjectCategories)
         /\ FirstFolderRule # 0 => HasCategory(FolderRuleCategory[FirstFolderRule])

\* the folder of the initial file system that holds "Assets" alone, aged 400
C5_Witness ==
  /\ Returned /\ IsFolder /\ CalledWithOwnChildren
  /\ children.list = <<FolderEntry(S_Assets, <<>>)>>
  /\ item.hasAge /\ item.age = 400 /\ item.name = S_OldProj
  /\ HasCategory("ARCHIVE_STALE")

----------------------------------------------------------------------------
(* C6 *)

\* the detector that determined a project result: the one of its category
DeterminingDetector ==
  CHOOSE i \in 1..Len(PROJECT_DETECTORS) : PROJECT_DETECTORS[i].category = result.category

\* C6 as claimed: whenever a project detector determines the result, the reason
\* equals that detector's `name` field and the category is the detector's.
C6_Original ==
  (Returned /\ result.kind = "result" /\ result.category \in ProjectCategories)
  => /\ SatisfiedSignatures # {}
     /\ result.category = SignatureCategory[Least(SatisfiedSignatures)]
     /\ result.reason = <<PROJECT_DETECTORS[DeterminingDetector].name>>

ProjectReasonText ==
  <<"Git Repository", "Node.js Project", "Python Project", "Unity Project",
    "Rust Project", "Go Project", "Java Project">>

\* C6 (amended): whenever one of the seven project detectors determines the
\* result, the category is the detector's fixed category and the reason is the
\* detector's `reason` field; that equals its `name` field for Git, Node,
\* Python, Unity, Rust and Go, while the Java detector, named
\* "Java/Maven Project", gives the reason "Java Project".
C6_ReasonIsDetectorReason ==
  (Returned /\ SatisfiedSignatures # {}) =>
    LET k == Least(SatisfiedSignatures)
    IN  /\ HasCategory(SignatureCategory[k])
        /\ result.reason = <<ProjectReasonText[k]>>
        /\ k # 7 => result.reason = <<PROJECT_DETECTORS[k].name>>
        /\ k = 7 => PROJECT_DETECTORS[k].name = "Java/Maven Project"

\* a folder that the Java detector decides
C6_Witness ==
  /\ Returned /\ IsFolder
  /\ children.list = <<FileEntry(S_build_gradle)>>
  /\ result.category = "PROJECT_JAVA" /\ result.reason = <<"Java Project">>

----------------------------------------------------------------------------
(* C7 *)

ProjectMarkerNames ==
  {S__git, S_package_json, S_requirements_txt, S_setup_py, S_pyproject_toml,
   S_Pipfile, S_Assets, S_ProjectSettings, S_Cargo_toml, S_go_mod, S_pom_xml,
   S_build_gradle}

\* C7: a node of type file never receives a PROJECT_* category, also when the
\* children list passed holds project markers; a marker that occurs only inside
\* a child folder never makes the node a project.
C7_ProjectsByDirectChildrenOfFolders ==
  (Returned /\ result.kind = "result" /\ result.category \in ProjectCategories)
  => /\ IsFolder
     /\ ArgHasEntryNamed(ProjectMarkerNames)
     /\ SatisfiedSignatures # {}
     /\ result.category = SignatureCategory[Least(SatisfiedSignatures)]

\* a file classified with a children list that holds ".git"
C7_Witness ==
  /\ Returned /\ item.type = "file"
  /\ ArgHasEntryNamed({S__git})
  /\ ~(result.kind = "result" /\ result.category \in ProjectCategories)

\* a folder whose only child is a folder that holds "Cargo.toml"
C7_WitnessGrandchild ==
  /\ Returned /\ IsFolder /\ CalledWithOwnChildren
  /\ children.list = <<FolderEntry(S_src, <<FileEntry(S_Cargo_toml)>>)>>
  /\ ~(result.kind = "result" /\ result.category \in ProjectCategories)

----------------------------------------------------------------------------
(* C8 *)

EmptyFolderResult ==
  [kind |-> "result", category |-> "VACUUM_EMPTY", target |-> "VACUUM",
   priority |-> 3, reason |-> <<"Empty Folder">>]

\* C8: every folder with zero children, classified with its own children list
\* or with the argument omitted, is VACUUM_EMPTY with target VACUUM and reason
\* 'Empty Folder', whatever its name and age.
C8_EmptyFolderIsVacuumEmpty ==
  (Returned /\ IsFolder /\ item.hasChildren /\ item.children = <<>>
   /\ (children.isNull \/ children.list = <<>>))
  => result = EmptyFolderResult

\* the empty folder ".dotnet" aged 400
C8_Witness ==
  /\ Returned /\ IsFolder /\ item.hasChildren /\ item.children = <<>>
  /\ CalledWithOwnChildren
  /\ item.name = S__dotnet /\ item.hasAge /\ item.age = 400
  /\ result = EmptyFolderResult

\* the empty folder whose name matches a name pattern, argument omitted
C8_WitnessNamePattern ==
  /\ Returned /\ IsFolder /\ item.hasChildren /\ item.children = <<>>
  /\ children.isNull /\ item.name = S_temp_tax_zip
  /\ result = EmptyFolderResult

----------------------------------------------------------------------------
(* C9 *)

NonEmptyFolder == IsFolder /\ item.hasChildren /\ Len(item.children) >= 1

\* the enumerated names that contain "temp" in lower case
LowerTempNames == {S_my_temp_build, S__temp, S_temp_tax_zip}

TempResult ==
  [kind |-> "result", category |-> "VACUUM_TEMP", target |-> "VACUUM",
   priority |-> 6, reason |-> <<"Old Temp Folder">>]

\* C9: a non-empty folder no project detector matches, whose name contains
\* "temp" and whose age is over 30, is VACUUM_TEMP (target VACUUM, reason
\* 'Old Temp Folder'), also over 365 days or with a leading '.'; at age 30 or
\* less the rule does not apply ("my-temp-build": VACUUM_TEMP at 45, null at
\* 10); "Temp" or "TEMP" without "temp" does not trigger it.
C9_OldTempFolder ==
  Returned =>
    /\ (NonEmptyFolder /\ SatisfiedSignatures = {}
        /\ item.name \in LowerTempNames /\ item.hasAge /\ item.age > 30)
         => result = TempResult
    /\ (~item.hasAge \/ item.age <= 30) => ~HasCategory("VACUUM_TEMP")
    /\ item.name \notin LowerTempNames => ~HasCategory("VACUUM_TEMP")
    /\ (NonEmptyFolder /\ SatisfiedSignatures = {} /\ item.name = S_my_temp_build
        /\ item.hasAge)
         => /\ item.age = 45 => result = TempResult
            /\ item.age = 10 => result = NullResult

\* ".temp", aged 400, with a child that is no marker
C9_Witness ==
  /\ Returned /\ NonEmptyFolder /\ CalledWithOwnChildren
  /\ SatisfiedSignatures = {}
  /\ item.name = S__temp /\ item.hasAge /\ item.age = 400
  /\ result = TempResult

\* "TEMP-Temp" at age 45 is not an old temp folder
C9_WitnessUpperCase ==
  /\ Returned /\ NonEmptyFolder /\ CalledWithOwnChildren
  /\ SatisfiedSignatures = {}
  /\ item.name = S_TEMP_Temp /\ item.hasAge /\ item.age = 45
  /\ result = NullResult

----------------------------------------------------------------------------
(* C10 *)

\* the number a string of decimal digits denotes
RECURSIVE DecimalValue(_)
DecimalValue(ds) ==
  IF ds = <<>> THEN 0
  ELSE 10 * DecimalValue(SubSeq(ds, 1, Len(ds) - 1))
       + (CHOOSE d \in 0..9 : Digits[d + 1] = ds[Len(ds)])

OldTemp == item.name \in LowerTempNames /\ item.hasAge /\ item.age > 30

DotName == item.name[1] = "."

\* C10: a non-empty folder that no project detector and no stale-temp rule
\* matches, whose name does not start with '.' and whose age is over 365, is
\* ARCHIVE_STALE (target 99_Archives/2024) with reason "Inactive (<age>d)";
\* at age 365 the rule does not fire; a folder whose name starts with '.' is
\* never ARCHIVE_STALE.
C10_StaleFolder ==
  Returned =>
    /\ (NonEmptyFolder /\ SatisfiedSignatures = {} /\ ~OldTemp /\ ~DotName
        /\ item.hasAge /\ item.age > 365)
         => /\ HasCategory("ARCHIVE_STALE")
            /\ result.target = "99_Archives/2024"
            /\ Len(result.reason) >= 3
            /\ result.reason[1] = "Inactive ("
            /\ result.reason[Len(result.reason)] = "d)"
            /\ DecimalValue(SubSeq(result.reason, 2, Len(result.reason) - 1)) = item.age
            /\ result.reason[2] # "0"
            /\ item.age = 400 => result.reason = <<"Inactive (", "4", "0", "0", "d)">>
    /\ (~item.hasAge \/ item.age <= 365) => ~HasCategory("ARCHIVE_STALE")
    /\ DotName => ~HasCategory("ARCHIVE_STALE")

\* "OldProj" with a child, aged 366
C10_Witness ==
  /\ Returned /\ NonEmptyFolder /\ CalledWithOwnChildren
  /\ item.name = S_OldProj /\ item.hasAge /\ item.age = 366
  /\ result.category = "ARCHIVE_STALE"
  /\ result.reason = <<"Inactive (", "3", "6", "6", "d)">>

----------------------------------------------------------------------------
(* C11 *)

DotnetResult ==
  [kind |-> "result", category |-> "SDK_DOTNET", target |-> "02_Studio/SDKs",
   priority |-> 8, reason |-> <<".NET SDK">>]

DotfileResult ==
  [kind |-> "result", category |-> "CONFIG_DOTFILE", target |-> "02_Studio/Config",
   priority |-> 8, reason |-> <<"Config Folder">>]

\* C11: a non-empty folder named ".dotnet" without a project marker is
\* SDK_DOTNET (target 02_Studio/SDKs) at every age, never CONFIG_DOTFILE; every
\* other non-empty, non-project folder with a leading '.' that no earlier folder
\* rule matches is CONFIG_DOTFILE (target 02_Studio/Config); a file never gets
\* SDK_DOTNET or CONFIG_DOTFILE.
C11_DotnetBeforeDotfile ==
  Returned =>
    /\ (NonEmptyFolder /\ SatisfiedSignatures = {} /\ item.name = S__dotnet)
         => result = DotnetResult
    /\ (NonEmptyFolder /\ SatisfiedSignatures = {} /\ DotName
        /\ item.name # S__dotnet /\ ~OldTemp)
         => result = DotfileResult
    /\ item.type = "file"
         => ~HasCategory("SDK_DOTNET") /\ ~HasCategory("CONFIG_DOTFILE")

\* the folder ".dotnet" of the initial file system's shape, aged 400
C11_Witness ==
  /\ Returned /\ NonEmptyFolder /\ CalledWithOwnChildren
  /\ item.name = S__dotnet /\ item.hasAge /\ item.age = 400
  /\ result = DotnetResult

\* the non-empty folder ".temp" at age 30 is a config folder
C11_WitnessDotfile ==
  /\ Returned /\ NonEmptyFolder /\ CalledWithOwnChildren
  /\ item.name = S__temp /\ item.hasAge /\ item.age = 30
  /\ result = DotfileResult

\* the file ".dotnet" is unclassified
C11_WitnessFile ==
  /\ Returned /\ item.type = "file" /\ item.name = S__dotnet
  /\ result = NullResult

----------------------------------------------------------------------------
(* C12 *)

\* the substrings of NAME_PATTERNS in list order, with the category and the
\* reason each stands for
PatternWords ==
  << <<"i","n","v","o","i","c","e">>, <<"r","e","c","e","i","p","t">>,
     <<"t","a","x">>, <<"n","d","a">>, <<"c","o","n","t","r","a","c","t">>,
     <<"b","l","o","o","d">>, <<"m","e","d","i","c","a","l">>,
     <<"p","a","s","s","p","o","r","t">>,
     <<"s","c","r","e","e","n","s","h","o","t">>, <<"e","x","p","o","r","t">>,
     <<"c","h","e","a","t","s","h","e","e","t">>, <<"b","o","o","k">> >>

PatternCategory ==
  <<"PRIVATE_FINANCIAL", "PRIVATE_FINANCIAL", "PRIVATE_FINANCIAL", "PRIVATE_LEGAL",
    "PRIVATE_LEGAL", "PRIVATE_MEDICAL", "PRIVATE_MEDICAL", "PRIVATE_IDENTITY",
    "MEDIA_IMAGE", "DOC_OFFICE", "DOC_TEXT", "DOC_PDF">>

PatternReason ==
  <<"Financial Document", "Financial Document", "Tax Document", "Legal Document",
    "Legal Document", "Medical Record", "Medical Record", "ID Document",
    "Screenshot", "Export", "Reference", "Book">>

\* the patterns the name contains, letters compared without regard to case
WordsInName ==
  LET lower == toLowerCase(item.name)
  IN  {i \in 1..Len(PatternWords) : includes(lower, PatternWords[i])}

\* C12: for a file whose name contains, case-insensitively, a NAME_PATTERNS
\* substring the result is the category and reason of the first such pattern in
\* list order, never an extension-table result: "Annual_Tax_Invoice_2024.pdf"
\* is PRIVATE_FINANCIAL with 'Financial Document', "screenshot_2024.png" is
\* MEDIA_IMAGE with 'Screenshot'.
C12_NamePatternBeforeExtension ==
  (Returned /\ item.type = "file") =>
    /\ WordsInName # {} =>
         /\ HasCategory(PatternCategory[Least(WordsInName)])
         /\ result.reason = <<PatternReason[Least(WordsInName)]>>
    /\ item.name = S_Annual_Tax_Invoice_2024_pdf =>
         /\ HasCategory("PRIVATE_FINANCIAL")
         /\ result.target = "04_Private/Financial"
         /\ result.reason = <<"Financial Document">>
    /\ item.name = S_screenshot_2024_png =>
         /\ HasCategory("MEDIA_IMAGE")
         /\ result.reason = <<"Screenshot">>

\* the file whose name holds "Tax" and "Invoice" in capitals and ends in ".pdf"
C12_Witness ==
  /\ Returned /\ item.type = "file"
  /\ item.name = S_Annual_Tax_Invoice_2024_pdf
  /\ Cardinality(WordsInName) = 2
  /\ result.reason = <<"Financial Document">>

----------------------------------------------------------------------------
(* C13 *)

ArchiveResult ==
  [kind |-> "result", category |-> "ARCHIVE_COMPRESSED",
   target |-> "00_Inbox/Archives", priority |-> 5, reason |-> <<"Archive">>]

\* C13: for a node that matches no name pattern the extension stage applies to
\* files only and looks up the lower-cased text from the last '.' on: no '.'
\* gives null, "A.ZIP" classifies like "a.zip", "a.tar.gz" is looked up as
\* ".gz", an unlisted extension gives null, "archive.zip" is
\* ARCHIVE_COMPRESSED (target 00_Inbox/Archives); a folder is never classified
\* by its extension.
C13_ExtensionOfFiles ==
  (Returned /\ WordsInName = {}) =>
    /\ item.type = "file" =>
         /\ item.name \in {S_archive_zip, S_A_ZIP, S_a_tar_gz} => result = ArchiveResult
         /\ item.name \in {S_README, S_notes_xyz, S_v1_zip_bak, S_my_temp_build,
                           S__dotnet, S_OldProj} => result = NullResult
         /\ result = FirstMatchReference
    /\ (NonEmptyFolder /\ SatisfiedSignatures = {} /\ FirstFolderRule = 0)
         => result = NullResult

\* the file "A.ZIP"
C13_Witness ==
  /\ Returned /\ item.type = "file" /\ item.name = S_A_ZIP
  /\ result = ArchiveResult

\* a young, non-empty folder named "archive.zip" is unclassified
C13_WitnessFolder ==
  /\ Returned /\ NonEmptyFolder /\ CalledWithOwnChildren
  /\ SatisfiedSignatures = {} /\ item.name = S_archive_zip
  /\ result = NullResult

----------------------------------------------------------------------------
(* C14 *)

\* the categories of the rules that hold of the call, of every stage
MatchingCategories ==
  {PROJECT_DETECTORS[i].category : i \in ProjectMatches}
  \cup {FOLDER_RULES[i].category : i \in FolderMatches}
  \cup {PatternCategory[i] : i \in WordsInName}

\* C14: the result carries the target and priority FILE_CATEGORIES lists for
\* its category, and the winner is chosen by stage and list position, not by
\* priority: an empty folder whose name contains "invoice" is VACUUM_EMPTY with
\* priority 3, not PRIVATE_FINANCIAL with priority 9.
C14_PositionNotPriority ==
  Returned =>
    /\ result.kind = "result" =>
         /\ result.target = FILE_CATEGORIES[result.category].target
         /\ result.priority = FILE_CATEGORIES[result.category].priority
    /\ (IsFolder /\ item.hasChildren /\ item.children = <<>>
        /\ (children.isNull \/ children.list = <<>>)
        /\ 1 \in WordsInName)
         => /\ HasCategory("VACUUM_EMPTY") /\ result.priority = 3
            /\ "PRIVATE_FINANCIAL" \in MatchingCategories
            /\ FILE_CATEGORIES["PRIVATE_FINANCIAL"].priority = 9

\* an empty folder whose name contains "Invoice": a rule of priority 9 holds,
\* the result has priority 3
C14_Witness ==
  /\ Returned /\ IsFolder /\ item.hasChildren /\ item.children = <<>>
  /\ CalledWithOwnChildren
  /\ 1 \in WordsInName
  /\ \E c \in MatchingCategories : FILE_CATEGORIES[c].priority > result.priority
  /\ HasCategory("VACUUM_EMPTY")

----------------------------------------------------------------------------
(* C16 *)

\* C16: a folder whose children field is absent, classified with the children
\* argument null or omitted, is handled like a folder with an empty list: no
\* project detector matches, nothing is thrown, the result is VACUUM_EMPTY.
C16_AbsentChildrenIsEmpty ==
  (Returned /\ IsFolder /\ ~item.hasChildren /\ children.isNull) =>
    /\ result # Thrown
    /\ \A k \in 1..Len(PROJECT_DETECTORS) : ~HasCategory(PROJECT_DETECTORS[k].category)
    /\ result = EmptyFolderResult

\* an old folder named "Temp" without a children field, argument omitted
C16_Witness ==
  /\ Returned /\ IsFolder /\ ~item.hasChildren /\ children.isNull
  /\ item.name = S_TEMP_Temp /\ item.hasAge /\ item.age = 400
  /\ result = EmptyFolderResult

----------------------------------------------------------------------------
(* C17 *)

\* the same node with age: 0
AgeZeroTwin == [item EXCEPT !.hasAge = TRUE, !.age = 0]

\* C17: a folder whose age is absent is classified exactly as the same folder
\* with age 0, so it is never VACUUM_TEMP and never ARCHIVE_STALE.
C17_AbsentAgeIsZero ==
  (Returned /\ IsFolder /\ ~item.hasAge) =>
    /\ result = detectFileCategory(AgeZeroTwin, children)
    /\ ~HasCategory("VACUUM_TEMP")
    /\ ~HasCategory("ARCHIVE_STALE")

\* a non-empty folder "my_temp_build" without an age: neither age rule fires
C17_Witness ==
  /\ Returned /\ NonEmptyFolder /\ CalledWithOwnChildren /\ ~item.hasAge
  /\ item.name = S_my_temp_build
  /\ SatisfiedSignatures = {}
  /\ result = NullResult

----------------------------------------------------------------------------
(* C19 *)

ArchiveTarget == "99_Archives/2024"

\* C19: a folder inactive for 180 days or more, project folders included, is
\* classified with a 99_Archives target.
C19_InactiveFolderArchived ==
  (Returned /\ IsFolder /\ item.hasAge /\ item.age >= 180) =>
    /\ result.kind = "result"
    /\ result.target = ArchiveTarget

\* a Rust project folder of age 400 keeps its project category
C19_Witness ==
  /\ Returned /\ NonEmptyFolder /\ CalledWithOwnChildren
  /\ item.name = S_OldProj /\ item.hasAge /\ item.age = 400
  /\ HasCategory("PROJECT_RUST")
  /\ result.target # ArchiveTarget

\* a non-project folder of age 365 is unclassified
C19_WitnessAtYear ==
  /\ Returned /\ NonEmptyFolder /\ CalledWithOwnChildren
  /\ item.name = S_OldProj /\ item.hasAge /\ item.age = 365
  /\ SatisfiedSignatures = {}
  /\ result = NullResult

----------------------------------------------------------------------------
(* C15 *)

\* C15: detectFileCategory is deterministic and free of side effects: calls in
\* any number and order with equal (node, children) return equal results, and
\* no call changes the node, its children or the rule tables (whose only
\* mutable part is the lastIndex of the NAME_PATTERNS RegExp objects).
C15_DeterministicNoSideEffect ==
  /\ \A i, j \in DOMAIN history :
       (history[i].item = history[j].item /\ history[i].children = history[j].children)
         => history[i].result = history[j].result
  /\ \A i \in DOMAIN history :
       /\ history[i].result = detectFileCategory(history[i].item, history[i].children)
       /\ pool[history[i].arg].item = history[i].item
       /\ pool[history[i].arg].children = history[i].children
  /\ lastIndex = InitialLastIndex

\* the file matching two patterns classified, then another item, then the
\* first file again
C15_Witness ==
  /\ Len(history) = 3
  /\ history[1].item.name = S_Annual_Tax_Invoice_2024_pdf
  /\ history[2].item.name = S_screenshot_2024_png
  /\ history[3].item = history[1].item
  /\ history[3].result.reason = <<"Financial Document">>

\* two equal files at different positions of the scan, classified in turn
C15_WitnessEqualItems ==
  /\ Len(history) = 2
  /\ history[1].arg # history[2].arg
  /\ history[1].item.name = S_Annual_Tax_Invoice_2024_pdf
  /\ history[1].item = history[2].item
  /\ history[2].result.reason = <<"Financial Document">>

----------------------------------------------------------------------------
(* C18 *)

\* the sizes of all file nodes below a node, an absent size counted as 0
RECURSIVE FileSizesBelow(_)
FileSizesBelow(node) ==
  LET kids == IF node.hasChildren THEN node.children ELSE <<>>
      below == [i \in 1..Len(kids) |->
                  IF kids[i].type = "file"
                  THEN (IF kids[i].hasSize THEN kids[i].size ELSE 0)
                  ELSE FileSizesBelow(kids[i])]
      Total[i \in 0..Len(kids)] == IF i = 0 THEN 0 ELSE Total[i - 1] + below[i]
  IN  Total[Len(kids)]

\* node by node: the output has the input's shape, a folder the sum of the
\* files below it, a file its present size
RECURSIVE SizesAsClaimed(_, _)
SizesAsClaimed(orig, enr) ==
  LET kids == IF orig.hasChildren THEN orig.children ELSE <<>>
  IN  /\ enr.name = orig.name /\ enr.type = orig.type
      /\ enr.hasSize
      /\ orig.type = "folder" => enr.size = FileSizesBelow(orig)
      /\ (orig.type = "file" /\ orig.hasSize) => enr.size = orig.size
      /\ Len(enr.children) = Len(kids)
      /\ \A i \in 1..Len(kids) : SizesAsClaimed(kids[i], enr.children[i])

\* C18: enrichWithSizes sets every folder's size to the sum of the sizes of all
\* file nodes below it (the folder's declared size is discarded, an absent file
\* size counts as 0), leaves every file's present size unchanged, and applied
\* to its own output returns an identical tree.
C18_SizesAreSumsOfFilesBelow ==
  /\ sized # NotCalled => SizesAsClaimed(tree, sized)
  /\ resized # NotCalled => resized = sized

\* a folder declared 7 holding a folder with a file of 5 and a file of 5: its
\* size becomes 10, and the second pass changes nothing
C18_Witness ==
  /\ resized # NotCalled
  /\ tree.type = "folder" /\ tree.hasSize /\ tree.size = 7
  /\ tree.hasChildren /\ Len(tree.children) = 2
  /\ tree.children[1].type = "folder" /\ tree.children[1].hasChildren
  /\ Len(tree.children[1].children) = 1
  /\ tree.children[1].children[1].size = 5
  /\ tree.children[2].type = "file" /\ tree.children[2].size = 5
  /\ sized.size = 10
  /\ resized = sized

\* a file without a size below a folder: counted as 0
C18_WitnessAbsentSize ==
  /\ sized # NotCalled
  /\ tree.type = "folder" /\ tree.hasChildren /\ Len(tree.children) = 2
  /\ tree.children[1].type = "file" /\ ~tree.children[1].hasSize
  /\ tree.children[2].type = "file" /\ tree.children[2].size = 5
  /\ sized.size = 5

----------------------------------------------------------------------------
(* C20 *)

\* "base (k)ext" for the target names of the requests, written out
NumberedName(name, k) ==
  CASE name = S_x_txt ->
         <<"x", " ", "(">> \o numberToString(k) \o <<")", ".", "t", "x", "t">>
    [] name = S_x_1_txt ->
         <<"x", " ", "(", "1", ")", " ", "(">> \o numberToString(k)
           \o <<")", ".", "t", "x", "t">>
    [] name = S__env ->
         <<".", "e", "n", "v", " ", "(">> \o numberToString(k) \o <<")">>

\* the k-th path of the sequence target, "base (1)ext", "base (2)ext", ...
SequencePath(target, k) ==
  IF k = 0 THEN target ELSE [dir |-> target.dir, name |-> NumberedName(target.name, k)]

\* the rename went to the first path of the sequence at which nothing lay
FirstFreeOfSequence(call) ==
  \E k \in 0..Cardinality(call.existing) :
    /\ call.final = SequencePath(call.target, k)
    /\ call.final \notin call.existing
    /\ \A j \in 0..(k - 1) : SequencePath(call.target, j) \in call.existing

\* no rename lands on a path at which an entry lies, whether it lay there
\* before the request or an earlier move put it there
NoOverwrite == \A i \in DOMAIN log : log[i].final \notin log[i].existing

MovesToFirstFree == \A i \in DOMAIN log : FirstFreeOfSequence(log[i])

\* C20 as stated: in one request every MOVE renames its source to the first
\* path of the sequence target, "base (1)ext", "base (2)ext", ... that does not
\* exist, no move overwrites a path, and two moves with the same target end at
\* distinct final paths.
C20_Original ==
  /\ MovesToFirstFree
  /\ NoOverwrite
  /\ \A i, j \in DOMAIN log :
       (i < j /\ log[i].done /\ log[j].done /\ log[i].target = log[j].target)
         => log[i].final # log[j].final

\* C20: in one request every MOVE renames its source to the first path of the
\* sequence target, "base (1)ext", "base (2)ext", ... that does not exist, no
\* move overwrites a path, and two moves with the same target end at distinct
\* final paths unless the entry the earlier move put there has been deleted or
\* moved on when the later move is made.
C20_FirstFreePathNoOverwrite ==
  /\ MovesToFirstFree
  /\ NoOverwrite
  /\ \A i, j \in DOMAIN log :
       (i < j /\ log[i].done /\ log[j].done /\ log[i].target = log[j].target
        /\ log[i].final \in log[j].existing)
         => log[i].final # log[j].final

\* T/x.txt and T/x (1).txt lie there; a move takes "x (1).txt" to
\* "x (1) (1).txt", two moves aimed at x.txt end at "x (2).txt" and "x (3).txt"
C20_Witness ==
  /\ Len(log) = 3
  /\ \A i \in 1..3 : log[i].done
  /\ log[2].target = log[3].target
  /\ log[1].final.name = NumberedName(S_x_1_txt, 1)
  /\ log[2].final.name = NumberedName(S_x_txt, 2)
  /\ log[3].final.name = NumberedName(S_x_txt, 3)
  /\ pcx[1] = "done"

\* a move to T/x.txt, the entry deleted, a second move to T/x.txt: both
\* results name T/x.txt
C20_WitnessSamePathTwice ==
  /\ Len(log) = 2
  /\ log[1].done /\ log[2].done
  /\ log[1].target = log[2].target
  /\ log[1].final = log[2].final
  /\ pcx[1] = "done"

\* a dot file in the way: ".env" becomes ".env (1)"
C20_WitnessDotFile ==
  /\ Len(log) = 1 /\ log[1].done
  /\ log[1].target.name = S__env
  /\ log[1].final.name = NumberedName(S__env, 1)

----------------------------------------------------------------------------
(* C21 *)

\* the moves of request r the loop has finished
Processed(r) == idx[r] - 1

\* a step of request r that records the outcome of a move: one entry more in
\* exactly one of results and errors, for the move the loop stands at, and the
\* loop goes on to the next move
RecordsCurrentMove(r) ==
  /\ idx'[r] = idx[r] + 1
  /\ idx[r] <= Len(moves[r])
  /\ \/ /\ Len(results'[r]) = Len(results[r]) + 1
        /\ SubSeq(results'[r], 1, Len(results[r])) = results[r]
        /\ results'[r][Len(results'[r])].sourcePath = moves[r][idx[r]].sourcePath
        /\ errors'[r] = errors[r]
     \/ /\ Len(errors'[r]) = Len(errors[r]) + 1
        /\ SubSeq(errors'[r], 1, Len(errors[r])) = errors[r]
        /\ errors'[r][Len(errors'[r])].sourcePath = moves[r][idx[r]].sourcePath
        /\ results'[r] = results[r]

\* every finished move has one entry, and the response counts them
OneEntryPerMove ==
  \A r \in Requests :
    /\ Len(results[r]) + Len(errors[r]) = Processed(r)
    /\ Processed(r) <= Len(moves[r])
    /\ response[r] # NotCalled =>
         /\ response[r].total = Len(moves[r])
         /\ response[r].succeeded + response[r].failed = response[r].total
         /\ response[r].succeeded = Len(response[r].results)
         /\ response[r].failed = Len(response[r].errors)
         /\ Processed(r) = Len(moves[r])

\* C21: the handler takes the moves one after another in list order; a move
\* that fails is recorded in errors and the following moves are still made;
\* every move leaves exactly one entry in results or in errors, so the summary
\* has total = succeeded + failed = the number of moves submitted.
C21_OneEntryPerMoveInOrder ==
  /\ []OneEntryPerMove
  /\ [][\A r \in Requests :
          (idx'[r] # idx[r] \/ results'[r] # results[r] \/ errors'[r] # errors[r])
            => RecordsCurrentMove(r)]_vars

\* a request of three moves whose first fails (nothing lies at its source) and
\* whose second and third succeed
C21_Witness ==
  /\ pcx[1] = "done"
  /\ Len(moves[1]) = 3
  /\ moves[1][1] = MoveOp(SourceGone, S_x_txt)
  /\ response[1].total = 3
  /\ response[1].failed = 1
  /\ response[1].succeeded = 2
  /\ response[1].results[1].sourcePath = moves[1][2].sourcePath
  /\ response[1].results[2].sourcePath = moves[1][3].sourcePath

----------------------------------------------------------------------------
(* C25 *)

\* C25: also when two requests run at the same time, under every interleaving
\* of their probe, suffix and rename steps, no rename lands on a path at which
\* an entry lies at the moment of the rename, and two moves never rename onto
\* the same final path.
C25_NoOverwriteWhenConcurrent ==
  /\ \A i \in DOMAIN log : log[i].done => log[i].final \notin log[i].existing
  /\ \A i, j \in DOMAIN log :
       (i < j /\ log[i].done /\ log[j].done /\ log[i].request # log[j].request)
         => log[i].final # log[j].final

\* both requests probed T/x.txt while nothing lay there; the second rename
\* replaces the entry the first one put there: the file "a" is lost
C25_Witness ==
  /\ Len(log) = 2
  /\ log[1].request # log[2].request
  /\ log[1].done /\ log[2].done
  /\ log[1].sourcePath = SourceA /\ log[2].sourcePath = SourceB
  /\ log[1].final = log[2].final
  /\ log[2].final \in log[2].existing
  /\ \A p \in DOMAIN fs : fs[p] # "a"

----------------------------------------------------------------------------
(* C30 *)

\* node.children holds an entry with the name of a project marker
OwnHasMarker ==
  item.hasChildren /\ \E i \in 1..Len(item.children) :
                        item.children[i].name \in ProjectMarkerNames

\* the argument of classify(node, node.children): an absent list is undefined,
\* for which the parameter takes its default null
OwnArg == IF item.hasChildren THEN ListArg(item.children) ELSE NullArg

\* C30: project detection reads only the children argument and the
\* empty-folder rule only node.children: with the argument null or omitted no
\* PROJECT_* category is returned even if node.children holds a marker, so
\* classify(node) and classify(node, node.children) can differ; they agree on
\* every node whose children hold no project marker.
C30_ArgumentVersusOwnChildren ==
  Returned =>
    /\ children.isNull => \A c \in ProjectCategories : ~HasCategory(c)
    /\ (IsFolder /\ SatisfiedSignatures # {})
         => \E c \in ProjectCategories : HasCategory(c)
    /\ (IsFolder /\ SatisfiedSignatures = {} /\ item.hasChildren /\ item.children = <<>>)
         => result = EmptyFolderResult
    /\ (children.isNull /\ ~OwnHasMarker)
         => result = detectFileCategory(item, OwnArg)
    /\ (CalledWithOwnChildren /\ ~OwnHasMarker)
         => result = detectFileCategory(item, NullArg)

\* classify(node) of a folder holding Cargo.toml: unclassified, where
\* classify(node, node.children) gives PROJECT_RUST
C30_Witness ==
  /\ Returned /\ IsFolder /\ children.isNull
  /\ item.hasChildren /\ item.children = <<FileEntry(S_Cargo_toml)>>
  /\ item.name = S_OldProj /\ ~item.hasAge
  /\ result = NullResult
  /\ detectFileCategory(item, OwnArg) = RustResult

\* a folder with an empty list of its own, classified with a list holding
\* Cargo.toml: a Rust project, not an empty folder
C30_WitnessArgumentOnly ==
  /\ Returned /\ IsFolder /\ ~children.isNull
  /\ item.hasChildren /\ item.children = <<>>
  /\ children.list = <<FileEntry(S_Cargo_toml)>>
  /\ result = RustResult

----------------------------------------------------------------------------
(* POST /api/scan *)

Scanned == scanResponse # NotCalled /\ scanResponse.status = 200

\* the depth of the deepest node of a returned tree, the scanned path being
\* at depth 0
RECURSIVE DeepestNode(_)
DeepestNode(node) ==
  IF node.children = <<>> THEN 0
  ELSE 1 + CHOOSE d \in {DeepestNode(node.children[i]) : i \in 1..Len(node.children)} :
             \A i \in 1..Len(node.children) : DeepestNode(node.children[i]) <= d

\* the deepest a scan is ever asked to go: the upper limit of validateDepth
\* and the default of scanDirectory in server/index.js
LargestDepth == 10

\* the depth the request asks for; a request that names none, or none that is
\* a number, cannot ask for more than the largest
RequestedDepth ==
  IF scanRequest.depth.kind = "number" THEN scanRequest.depth.n ELSE LargestDepth

\* C22: every scan is depth-bounded: the tree scanDirectory returns has no
\* node at depth maxDepth or deeper, whatever maxDepth the request supplies
C22_ScanDepthBounded ==
  Scanned => DeepestNode(scanResponse.scanned) < RequestedDepth

\* a scan of server.js answered with a file that lies at depth maxDepth
C22_Witness ==
  /\ Scanned
  /\ scanRequest.server = "server.js"
  /\ scanRequest.depth = NumberDepth(1)
  /\ scanResponse.scanned.children # <<>>
  /\ scanResponse.scanned.children[1].type = "file"

\* stat and, for a directory, readdir succeed
Readable(entry) == entry.statOk /\ (entry.kind = "dir" => entry.readdirOk)

SkippedBy(server, name) ==
  IF server = "server.js" THEN SkippedServer(name) ELSE SkippedIndex(name)

RECURSIVE SumOfSizes(_)
SumOfSizes(kids) == IF kids = <<>> THEN 0 ELSE kids[1].size + SumOfSizes(Tail(kids))

\* below this node of the returned tree, which stands for this entry of the
\* disk at this depth: every child kept is a readable entry, every readable
\* entry that the scan neither filters by name nor cuts by depth is kept,
\* and the size is the sum of the sizes of the children kept
RECURSIVE UnreadableSkipped(_, _, _)
UnreadableSkipped(node, entry, depth) ==
  node.type = "folder" =>
    /\ \A i \in 1..Len(node.children) :
         \E j \in 1..Len(entry.entries) :
           /\ entry.entries[j].name = node.children[i].name
           /\ Readable(entry.entries[j])
           /\ UnreadableSkipped(node.children[i], entry.entries[j], depth + 1)
    /\ \A j \in 1..Len(entry.entries) :
         (/\ Readable(entry.entries[j])
          /\ ~SkippedBy(scanRequest.server, entry.entries[j].name)
          /\ ~depthReached(depth + 1, scanRequest.depth))
         => \E i \in 1..Len(node.children) :
              node.children[i].name = entry.entries[j].name
    /\ node.size = SumOfSizes(node.children)

\* C23: a child that cannot be read (stat or readdir fails) is left out of
\* its parent's children and the scan goes on: the readable siblings are in
\* the returned tree, the parent is returned, and the parent's size is the
\* sum of the sizes of the children kept
C23_UnreadableChildSkipped ==
  Scanned => UnreadableSkipped(scanResponse.scanned, disk, 0)

\* a scan answered with a tree whose root has an unreadable entry and a
\* readable one
C23_Witness ==
  /\ Scanned
  /\ scanResponse.scanned.type = "folder"
  /\ \E j \in 1..Len(disk.entries) : ~Readable(disk.entries[j])
  /\ \E j \in 1..Len(disk.entries) :
       /\ Readable(disk.entries[j])
       /\ \E i \in 1..Len(scanResponse.scanned.children) :
            scanResponse.scanned.children[i].name = disk.entries[j].name

----------------------------------------------------------------------------
(* The move plan *)

\* runMoveDetection has handed its moves to setProposedMoves
Detected ==
  planMoves # NotCalled /\ planMoves.by = "runMoveDetection" /\ ~planMoves.thrown

\* the nodes below a children list with, for each, the names down to it, the
\* name of its parent and whether an ancestor is classified with target VACUUM
RECURSIVE NodesBelow(_, _, _, _)
NodesBelow(nodes, parentName, parentAt, underVacuum) ==
  UNION { LET n == nodes[i]
              at == Append(parentAt, n.name)
              d == detectFileCategory(n, childrenOrNull(n))
              vacuumed == /\ n.name # S__UNSORTED_DESKTOP
                          /\ d # NullResult /\ d.target = "VACUUM"
          IN {[node |-> n, at |-> at, parentName |-> parentName,
               underVacuum |-> underVacuum]}
             \cup NodesBelow(n.children, n.name, at, underVacuum \/ vacuumed) :
          i \in 1..Len(nodes) }

PlanNodes == NodesBelow(planRoot.children, <<>>, <<>>, FALSE)

\* the moves of the plan whose item is the node at these names
MovesOf(at) ==
  {i \in 1..Len(planMoves.moves) : planMoves.moves[i].at = at}

Classification(n) == detectFileCategory(n.node, childrenOrNull(n.node))

\* the three cases of the fallback for one node
InboxFallback(n) ==
  LET d == Classification(n)
      inInbox == n.parentName = S__UNSORTED_DESKTOP
      own == MovesOf(n.at)
  IN  /\ (d = NullResult /\ inInbox /\ n.node.type = "file")
         => /\ Cardinality(own) = 1
            /\ \A i \in own : /\ planMoves.moves[i].target = "00_Inbox"
                              /\ planMoves.moves[i].reason = <<"Inbox Item">>
      /\ (d = NullResult /\ ~(inInbox /\ n.node.type = "file")) => own = {}
      /\ (d # NullResult /\ inInbox)
         => /\ Cardinality(own) = 1
            /\ \A i \in own : planMoves.moves[i].target = d.target

\* the nodes the fallback is about: every node but the unsorted desktop itself
Ordinary(n) == n.node.name # S__UNSORTED_DESKTOP

\* C24 as stated: an unclassified file directly inside a folder named
\* _UNSORTED_DESKTOP gets a move to 00_Inbox with reason 'Inbox Item', any
\* other unclassified node gets no move, and a classified node inside
\* _UNSORTED_DESKTOP gets the target of its classification
C24_Original ==
  Detected => \A n \in PlanNodes : Ordinary(n) => InboxFallback(n)

\* C24: the same for every node that does not lie below a folder classified
\* with target VACUUM; a node that lies below one gets no move
C24_InboxFallbackWhereScanned ==
  Detected =>
    \A n \in PlanNodes :
      Ordinary(n) => IF n.underVacuum THEN MovesOf(n.at) = {} ELSE InboxFallback(n)

\* a plan with an inbox move for an unclassified file inside the unsorted
\* desktop
C24_Witness ==
  /\ Detected
  /\ \E n \in PlanNodes :
       /\ Ordinary(n) /\ ~n.underVacuum /\ n.parentName = S__UNSORTED_DESKTOP
       /\ n.node.type = "file" /\ Classification(n) = NullResult
       /\ \E i \in MovesOf(n.at) : planMoves.moves[i].target = "00_Inbox"

\* an unclassified folder inside the unsorted desktop
C24_WitnessFolder ==
  /\ Detected
  /\ \E n \in PlanNodes :
       /\ Ordinary(n) /\ ~n.underVacuum /\ n.parentName = S__UNSORTED_DESKTOP
       /\ n.node.type = "folder" /\ Classification(n) = NullResult

\* a classified node inside the unsorted desktop
C24_WitnessClassified ==
  /\ Detected
  /\ \E n \in PlanNodes :
       /\ Ordinary(n) /\ ~n.underVacuum /\ n.parentName = S__UNSORTED_DESKTOP
       /\ Classification(n) # NullResult

\* an unclassified file inside an unsorted desktop that lies in a vacuumed folder
C24_WitnessUnderVacuum ==
  /\ Detected
  /\ \E n \in PlanNodes :
       /\ Ordinary(n) /\ n.underVacuum /\ n.parentName = S__UNSORTED_DESKTOP
       /\ n.node.type = "file" /\ Classification(n) = NullResult

Planned == planMoves # NotCalled /\ ~planMoves.thrown

\* the node at names a is an ancestor of the node at names b
AncestorOf(a, b) == Len(a) < Len(b) /\ SubSeq(b, 1, Len(a)) = a

\* C27: no two moves of a plan concern nodes of which one is an ancestor of
\* the other, so that running the plan in list order never operates on a
\* path that an earlier move has deleted or moved away
C27_NoMoveBelowAMove ==
  Planned =>
    \A i, j \in 1..Len(planMoves.moves) :
      ~AncestorOf(planMoves.moves[i].at, planMoves.moves[j].at)

\* a plan of runMoveDetection in which a folder that is moved, not vacuumed,
\* comes before a node inside it
C27_Witness ==
  /\ Detected
  /\ \E i, j \in 1..Len(planMoves.moves) :
       /\ i < j
       /\ planMoves.moves[i].target # "VACUUM"
       /\ AncestorOf(planMoves.moves[i].at, planMoves.moves[j].at)

\* a plan of runMoveDetection that vacuums the unsorted desktop before it
\* moves a file out of it
C27_WitnessVacuumFirst ==
  /\ Detected
  /\ \E i, j \in 1..Len(planMoves.moves) :
       /\ i < j
       /\ planMoves.moves[i].target = "VACUUM"
       /\ planMoves.moves[j].target = "00_Inbox"
       /\ AncestorOf(planMoves.moves[i].at, planMoves.moves[j].at)

\* the path at which the node of a move lies: the directory scanned, the
\* names of the ancestors, the name of the node
ActualPath(move) ==
  pathJoin(targetPath \o SubSeq(move.at, 1, Len(move.at) - 1), move.item.name)

RequestBuilt == planRequests # NotCalled

\* C28: the sourcePath sent for each move of the plan is the path at which
\* the node lies
C28_SourcePathIsNodePath ==
  RequestBuilt =>
    \A i \in 1..Len(planRequests.moves) :
      planRequests.moves[i].sourcePath = ActualPath(planMoves.moves[i])

\* a request whose entry for a node inside the unsorted desktop names the path
\* of a top-level entry of the same name
C28_Witness ==
  /\ RequestBuilt
  /\ \E i \in 1..Len(planRequests.moves) :
       /\ Len(planMoves.moves[i].at) = 2
       /\ planRequests.moves[i].operation = "MOVE"
       /\ \E k \in 1..Len(planRoot.children) :
            /\ planRoot.children[k].name = planMoves.moves[i].item.name
            /\ planRequests.moves[i].sourcePath
                 = pathJoin(targetPath, planRoot.children[k].name)

----------------------------------------------------------------------------
(* The application *)

\* the plan the scan of a variant computes from a tree
PlanFor(variant, root) ==
  IF variant = "App.tsx" THEN scanCallbackMoves(root) ELSE runMoveDetection(root)

\* C29: after a successful scan of real files the plan shown in REVIEW is
\* computed from the tree that scan returned (the tree setFileSystem was
\* given), never from the tree that was current before the scan
C29_PlanFromScannedTree ==
  (appState = "REVIEW" /\ useRealFiles)
  => proposedMoves = PlanFor(appVariant, fileSystem.root)

\* REVIEW after a scan of real files in App.tsx, the plan being that of the
\* tree shown before the scan and not that of the tree the scan returned
C29_Witness ==
  /\ appState = "REVIEW" /\ useRealFiles /\ appVariant = "App.tsx"
  /\ fileSystem.root \in ScannedRoots
  /\ proposedMoves = PlanFor(appVariant, MockRoot)
  /\ proposedMoves # PlanFor(appVariant, fileSystem.root)

\* the entries that log a move, oldest first: the node each is about
RECURSIVE MoveLog(_)
MoveLog(l) ==
  IF l = <<>> THEN <<>>
  ELSE MoveLog(Tail(l))
       \o (IF l[1].msg \in {"Vacuumed", "Moved", "Error"} THEN <<l[1].detail>> ELSE <<>>)

PlanOrder(planned) == [i \in 1..Len(planned) |-> planned[i].at]

\* a change of appState as the lifecycle allows it
LifecycleStep ==
  appState' # appState =>
    \/ appState = "IDLE" /\ appState' = "SCANNING"
    \/ /\ appState = "SCANNING" /\ appState' = "REVIEW"
       /\ progress' = Fraction(100, 1)
       /\ \E r \in {MockRoot} \cup ScannedRoots : proposedMoves' = PlanFor(appVariant, r)
    \/ /\ appState = "SCANNING" /\ appState' = "IDLE"
       /\ logs'[1].msg = "Error scanning directory"
    \/ appState = "REVIEW" /\ appState' = "PROCESSING"
    \/ /\ appState = "PROCESSING" /\ appState' = "EXECUTED"
       /\ MoveLog(logs') = PlanOrder(proposedMoves)
    \/ /\ appState = "EXECUTED" /\ appState' = "IDLE"
       /\ proposedMoves' = <<>> /\ progress' = Fraction(0, 1)

\* a click starts its handler only in the state that shows its button
ButtonStep ==
  clicks' # clicks =>
    \/ appState = "IDLE" /\ appState' = "SCANNING"
    \/ appState = "REVIEW" /\ appState' = "PROCESSING"
    \/ appState = "EXECUTED" /\ appState' = "EXECUTED"

\* C26: appState only goes IDLE, SCANNING, REVIEW (or IDLE on a scan error),
\* PROCESSING, EXECUTED, IDLE; scan, execute and undo start only in IDLE,
\* REVIEW and EXECUTED; REVIEW is entered with a fresh plan and progress 100;
\* PROCESSING always leads to EXECUTED, every planned move logged once in
\* plan order; the step from EXECUTED to IDLE clears plan and progress
C26_Lifecycle ==
  /\ [][LifecycleStep /\ ButtonStep]_vars
  /\ (appState = "PROCESSING") ~> (appState = "EXECUTED")

\* IDLE entered from PROCESSING: the plan is still there, progress is at 10
C26_Witness ==
  /\ appState = "IDLE"
  /\ proposedMoves # <<>>
  /\ progress = Fraction(10, 1)
  /\ logs # <<>> /\ logs[1].msg = "Execution failed"

\* IDLE while a scan is under way: a second undo timer has run
C26_WitnessSecondUndo ==
  /\ appState = "IDLE"
  /\ logs # <<>> /\ logs[1].msg = "Rollback successful"
  /\ \E c \in pending : c.kind \in {"fetch", "analyze", "review", "mock", "detect"}

====
